---- MODULE Spec2Model ----
(***************************************************************************)
(* A model of the tree-walking evaluator of src/src/interpreter.rs and of   *)
(* the parser of src/src/parser.rs.                                        *)
(*                                                                         *)
(* Runtime values, AST nodes and evaluator results are records.  The       *)
(* reference-counted cells of the program (Rc<RefCell<..>>) are indices    *)
(* into heaps: `lists` (list cells), `senvs` (struct-instance              *)
(* environments) and `mtabs` (struct method tables).  The evaluator is a   *)
(* family of mutually recursive operators that thread an interpreter state *)
(* record; each action of a specification runs one top-level statement of  *)
(* a program, as one iteration of Interpreter::run does.                   *)
(***************************************************************************)
EXTENDS Integers, Sequences, FiniteSets, TLC

VARIABLES
    environment,    \* Interpreter.environment: the current frame
    globals,        \* Interpreter.globals: the global table
    lists,          \* heap of list cells (Rc<RefCell<Vec<Value>>>)
    senvs,          \* heap of struct-instance environments
    mtabs,          \* heap of struct method tables
    log,            \* observations made while the last statement ran
    program,        \* the top-level statements run so far
    outcome,        \* the result of the last top-level statement
    tokens,         \* the token sequence handed to parse
    parsed          \* what parse returned for it

vars ==
    <<environment, globals, lists, senvs, mtabs, log, program, outcome, tokens, parsed>>

----------------------------------------------------------------------------
(* Bounds of the model. *)

MaxArgs == 3        \* longest argument list of a call
MaxSteps == 4       \* most statements of a program, or of its repeated part
MaxLen == 4         \* longest list
MaxIter == 12       \* most iterations of while and loop statements in one run

----------------------------------------------------------------------------
NoName == "None"    \* Option<String>::None

----------------------------------------------------------------------------
(* Runtime values (environment::Value). *)

NoVal == [k |-> "None"]                     \* Option<Value>::None
NoExpr == [e |-> "None"]                    \* Option<Expression>::None
NoEnv == [none |-> TRUE]                    \* Option<Environment>::None

VNull == [k |-> "Null"]
VNumber(n) == [k |-> "Number", n |-> n]
VBool(b) == [k |-> "Bool", b |-> b]
VList(ref) == [k |-> "List", ref |-> ref]
VConstant(v) == [k |-> "Constant", inner |-> v]
VFunction(name, params, body, env, context) ==
    [k |-> "Function", name |-> name, params |-> params, body |-> body,
     environment |-> env, context |-> context]
VNativeMethod(name, context) == [k |-> "NativeMethod", name |-> name, context |-> context]
VStruct(name, fields, methods) ==
    [k |-> "Struct", name |-> name, fields |-> fields, methods |-> methods]
VStructInstance(ref, definition) ==
    [k |-> "StructInstance", environment |-> ref, definition |-> definition]

(* Value::typestring / to_number / to_bool *)
typestring(v) == v.k
to_number(v) == IF v.k = "Number" THEN v.n ELSE 0
to_bool(v) ==
    CASE v.k = "Bool" -> v.b
      [] v.k = "Number" -> v.n # 0
      [] v.k = "Null" -> FALSE
      [] OTHER -> TRUE

----------------------------------------------------------------------------
(* Environment: a frame, a finite map from names to values.  The global    *)
(* table and the method tables are maps of the same kind.                  *)

EnvNew == [n \in {} |-> NoVal]
EnvSet(env, name, value) ==
    [n \in DOMAIN env \cup {name} |-> IF n = name THEN value ELSE env[n]]
EnvGet(env, name) == IF name \in DOMAIN env THEN env[name] ELSE NoVal
EnvDrop(env, name) == [n \in DOMAIN env \ {name} |-> env[n]]

----------------------------------------------------------------------------
(* AST (ast::Expression, ast::Statement, ast::Parameter, ast::Argument). *)

Parameter(name, initial) == [name |-> name, initial |-> initial]
has_initial(param) == param.initial # NoExpr
Argument(name, expression) == [name |-> name, expression |-> expression]
ArgumentValued(name, value) == [name |-> name, value |-> value]

ExNumber(n) == [e |-> "Number", n |-> n]
ExBool(b) == [e |-> "Bool", b |-> b]
ExIdentifier(n) == [e |-> "Identifier", name |-> n]
ExList(items) == [e |-> "List", items |-> items]
ExIndex(target, index) == [e |-> "Index", target |-> target, index |-> index]
ExAssign(target, value) == [e |-> "Assign", target |-> target, value |-> value]
ExMathAssign(target, op, value) ==
    [e |-> "MathAssign", target |-> target, op |-> op, value |-> value]
ExInfix(left, op, right) == [e |-> "Infix", left |-> left, op |-> op, right |-> right]
ExClosure(params, body) == [e |-> "Closure", params |-> params, body |-> body]
ExCall(callable, arguments) ==
    [e |-> "Call", callable |-> callable, arguments |-> arguments]
ExMethodCall(target, field, arguments) ==
    [e |-> "MethodCall", target |-> target, field |-> field, arguments |-> arguments]
ExGetProperty(target, field) == [e |-> "GetProperty", target |-> target, field |-> field]
ExSetProperty(target, field, value) ==
    [e |-> "SetProperty", target |-> target, field |-> field, value |-> value]
ExStruct(definition, fields) ==
    [e |-> "Struct", definition |-> definition, fields |-> fields]

StCreateDeclaration(name, initial) ==
    [s |-> "CreateDeclaration", name |-> name, initial |-> initial]
StConstDeclaration(name, initial) ==
    [s |-> "ConstDeclaration", name |-> name, initial |-> initial]
StFunctionDeclaration(name, params, body) ==
    [s |-> "FunctionDeclaration", name |-> name, params |-> params, body |-> body]
StStructDeclaration(name, fields) ==
    [s |-> "StructDeclaration", name |-> name, fields |-> fields]
StFor(iterable, value, index, then) ==
    [s |-> "For", iterable |-> iterable, value |-> value, index |-> index, then |-> then]
StExpression(expression) == [s |-> "Expression", expression |-> expression]
StReturn(value) == [s |-> "Return", value |-> value]
StBreak == [s |-> "Break"]
StContinue == [s |-> "Continue"]
ConditionBlock(expression, then) == [expression |-> expression, then |-> then]
NoBlock == [b |-> "None"]                   \* Option<Block>
SomeBlock(block) == [b |-> "Some", block |-> block]
StWhile(condition) == [s |-> "While", condition |-> condition]
StLoop(body) == [s |-> "Loop", body |-> body]
StIf(condition, others_conditions, otherwise) ==
    [s |-> "If", condition |-> condition, others_conditions |-> others_conditions,
     otherwise |-> otherwise]
ExPrefix(op, right) == [e |-> "Prefix", op |-> op, right |-> right]
ExNull == [e |-> "Null"]
ExString(s) == [e |-> "String", s |-> s]

----------------------------------------------------------------------------
(* Results of the evaluator: Result<Value, InterpreterResult> together     *)
(* with the interpreter state the evaluation left behind.  sig is "Ok",    *)
(* the name of an InterpreterResult variant, or "Panic" (the process       *)
(* aborts: todo!, unreachable!, an index out of bounds).                   *)

Ok(st, v) == [st |-> st, sig |-> "Ok", val |-> v, err |-> <<>>]
Err(st, kind, payload) == [st |-> st, sig |-> kind, val |-> VNull, err |-> payload]
Return(st, v) == [st |-> st, sig |-> "Return", val |-> v, err |-> <<>>]
Panic(st) == Err(st, "Panic", <<>>)

Observe(st, event) == [st EXCEPT !.log = Append(@, event)]

----------------------------------------------------------------------------
(* The interpreter state threaded through the evaluator:                   *)
(*   environment, globals : the fields of struct Interpreter               *)
(*   lists, senvs, mtabs  : the heaps of shared cells                      *)
(*   borrowed             : list cells under a live RefCell::borrow()      *)
(*   log                  : observations                                   *)

(* The `?` operator: a result that is not Ok is returned as it is,         *)
(* otherwise the evaluation goes on with it.                               *)
Then(r, K(_)) == IF r.sig # "Ok" THEN r ELSE K(r)

RECURSIVE RunExpression(_, _)
RECURSIVE RunStatement(_, _)
RECURSIVE Call(_, _, _)
RECURSIVE get_property(_, _, _, _, _)

as_usize(n) == IF n < 0 THEN 0 ELSE n

RunIdentifier_frame_first(n, st) ==
    IF EnvGet(st.environment, n) # NoVal
    THEN Ok(st, EnvGet(st.environment, n))
    ELSE IF n \in DOMAIN st.globals
         THEN Ok(st, st.globals[n])
         ELSE Err(st, "UndefinedVariable", <<n>>)

(* Expression::Identifier: the global table first, then the frame. *)
RunIdentifier(n, st) ==
    IF n \in DOMAIN st.globals
    THEN Ok(st, st.globals[n])
    ELSE IF EnvGet(st.environment, n) # NoVal
         THEN Ok(st, EnvGet(st.environment, n))
         ELSE Err(st, "UndefinedVariable", <<n>>)

(* Expression::List: the items left to right, into a fresh cell. *)
RECURSIVE RunItems(_, _, _, _)
RunItems(items, i, acc, st) ==
    IF i > Len(items)
    THEN Ok(st, acc)
    ELSE Then(RunExpression(items[i], st),
              LAMBDA r : RunItems(items, i + 1, Append(acc, r.val), r.st))

RunList(items, st) ==
    Then(RunItems(items, 1, <<>>, st),
         LAMBDA r : Ok([r.st EXCEPT !.lists = Append(@, r.val)],
                       VList(Len(r.st.lists) + 1)))

(* Expression::Index *)
IndexInto(instance, at, st) ==
    IF instance.k # "List" THEN Panic(st)
    ELSE IF at + 1 <= Len(st.lists[instance.ref])
         THEN Ok(st, st.lists[instance.ref][at + 1])
         ELSE Err(st, "UndefinedIndex", <<at>>)

RunIndex(target, index, st) ==
    Then(RunExpression(target, st), LAMBDA ri :
        IF index = NoExpr THEN Panic(ri.st)
        ELSE Then(RunExpression(index, ri.st), LAMBDA rx :
                 IndexInto(ri.val, as_usize(to_number(rx.val)), rx.st)))

(* assign_to_list: `l[i] = v` overwrites, `l[] = v` appends, in the shared *)
(* cell; borrow_mut() of a cell a for loop is iterating aborts.            *)
list_overwrite(ref, at, value, st) ==
    IF ref \in st.borrowed \/ at + 1 > Len(st.lists[ref])
    THEN Panic(st)
    ELSE Ok([st EXCEPT !.lists[ref][at + 1] = value], VNull)

(* A variant that appends to a copy of the cell. *)
list_push_copy(ref, value, st) ==
    IF ref \in st.borrowed
    THEN Panic(st)
    ELSE Ok([st EXCEPT !.lists = Append(@, Append(st.lists[ref], value))], VNull)

list_push(ref, value, st) ==
    IF ref \in st.borrowed
    THEN Panic(st)
    ELSE Ok([st EXCEPT !.lists[ref] = Append(@, value)], VNull)

assign_to_list(instance, index, value, st) ==
    IF instance.k # "List"
    THEN Err(st, "InvalidAppendTarget", <<typestring(instance)>>)
    ELSE IF index # NoExpr
         THEN Then(RunExpression(index, st), LAMBDA rx :
                  list_overwrite(instance.ref, as_usize(to_number(rx.val)), value, rx.st))
         ELSE list_push(instance.ref, value, st)

(* Expression::Assign to an identifier: the target is evaluated first, and *)
(* a Constant there refuses the assignment.                                *)
assign_to_identifier_lost(target, current, value, st) ==
    IF current.k = "Constant"
    THEN Err(st, "CannotAssignValueToConstant", <<>>)
    ELSE IF target.e = "Identifier"
         THEN Ok(st, value)
         ELSE Panic(st)

assign_to_identifier(target, current, value, st) ==
    IF current.k = "Constant"
    THEN Err(st, "CannotAssignValueToConstant", <<>>)
    ELSE IF target.e = "Identifier"
         THEN Ok([st EXCEPT !.environment = EnvSet(@, target.name, value)], value)
         ELSE Panic(st)

RunAssign(target, value, st) ==
    Then(RunExpression(value, st), LAMBDA rv :
        IF target.e = "Index"
        THEN Then(RunExpression(target.target, rv.st), LAMBDA ri :
                 Then(assign_to_list(ri.val, target.index, rv.val, ri.st),
                      LAMBDA ra : Ok(ra.st, rv.val)))
        ELSE Then(RunExpression(target, rv.st), LAMBDA rt :
                 assign_to_identifier(target, rt.val, rv.val, rt.st)))

(* The arithmetic of MathAssign and Infix on whole numbers. *)
MathOp(op, l, r) ==
    CASE op = "Add" -> l + r
      [] op = "Subtract" -> l - r
      [] op = "Multiply" -> l * r
      [] op = "Divide" -> l \div r       \* f64 division, on operands that divide exactly

(* Expression::MathAssign *)
math_assign(target, op, current, value, st) ==
    IF current.k # "Number" \/ target.e # "Identifier"
    THEN Panic(st)
    ELSE Ok([st EXCEPT !.environment =
                 EnvSet(@, target.name,
                        VNumber(MathOp(op, current.n, to_number(value))))],
            VNumber(current.n + to_number(value)))

RunMathAssign(target, op, value, st) ==
    Then(RunExpression(target, st), LAMBDA rt :
        Then(RunExpression(value, rt.st), LAMBDA rv :
            math_assign(target, op, rt.val, rv.val, rv.st)))

(* Expression::Infix: both sides, then the operator table (the operators   *)
(* on whole numbers and booleans; a pair the table lacks is todo!()).      *)
infix(l, op, r, st) ==
    LET nums == l.k = "Number" /\ r.k = "Number"
        bools == l.k = "Bool" /\ r.k = "Bool"
    IN CASE nums /\ op \in {"Add", "Subtract", "Multiply"} ->
              Ok(st, VNumber(MathOp(op, l.n, r.n)))
         [] nums /\ op = "Equals" -> Ok(st, VBool(l.n = r.n))
         [] nums /\ op = "NotEquals" -> Ok(st, VBool(l.n # r.n))
         [] bools /\ op = "Equals" -> Ok(st, VBool(l.b = r.b))
         [] bools /\ op = "NotEquals" -> Ok(st, VBool(l.b # r.b))
         [] nums /\ op = "LessThan" -> Ok(st, VBool(l.n < r.n))
         [] nums /\ op = "GreaterThan" -> Ok(st, VBool(l.n > r.n))
         [] op = "And" -> Ok(st, VBool(to_bool(l) /\ to_bool(r)))
         [] op = "Or" -> Ok(st, VBool(to_bool(l) \/ to_bool(r)))
         [] OTHER -> Panic(st)

(* A variant that leaves the right operand of `and` / `or` alone when the  *)
(* left one decides.                                                       *)
RunInfix_short_circuit(left, op, right, st) ==
    Then(RunExpression(left, st), LAMBDA rl :
        IF (op = "And" /\ ~to_bool(rl.val)) \/ (op = "Or" /\ to_bool(rl.val))
        THEN Ok(rl.st, VBool(to_bool(rl.val)))
        ELSE Then(RunExpression(right, rl.st), LAMBDA rr :
                 infix(rl.val, op, rr.val, rr.st)))

RunInfix(left, op, right, st) ==
    Then(RunExpression(left, st), LAMBDA rl :
        Then(RunExpression(right, rl.st), LAMBDA rr :
            infix(rl.val, op, rr.val, rr.st)))

(* Expression::Prefix *)
RunPrefix(op, right, st) ==
    Then(RunExpression(right, st), LAMBDA rr :
        CASE op = "Bang" -> Ok(rr.st, VBool(~to_bool(rr.val)))
          [] op = "Subtract" -> Ok(rr.st, VNumber(-to_number(rr.val)))
          [] OTHER -> Panic(rr.st))

(* A variant that captures nothing. *)
RunClosure_bare(params, body, st) ==
    Ok(st, VFunction("Closure", params, body, NoEnv, NoExpr))

(* Expression::Closure: the captured environment is a copy of the frame. *)
RunClosure(params, body, st) ==
    Ok(st, VFunction("Closure", params, body, st.environment, NoExpr))

(* The argument expressions of a call, in order, keeping the name tags. *)
RECURSIVE RunArguments(_, _, _, _)
RunArguments(arguments, i, acc, st) ==
    IF i > Len(arguments)
    THEN Ok(st, acc)
    ELSE Then(RunExpression(arguments[i].expression, st), LAMBDA r :
             RunArguments(arguments, i + 1,
                          Append(acc, ArgumentValued(arguments[i].name, r.val)), r.st))

(* Expression::Call *)
RunCall(callable, arguments, st) ==
    Then(RunExpression(callable, st), LAMBDA rc :
        Then(RunArguments(arguments, 1, <<>>, rc.st), LAMBDA ra :
            Call(rc.val, ra.val, ra.st)))

----------------------------------------------------------------------------
(* Interpreter::call on a Value::Function.                                 *)

(* The statements of a block, in order, until one does not end Ok. *)
RECURSIVE RunBlock(_, _, _)
RunBlock(body, i, st) ==
    IF i > Len(body)
    THEN Ok(st, VNull)
    ELSE Then(RunStatement(body[i], st), LAMBDA r : RunBlock(body, i + 1, r.st))

(* Each argument in turn: a named argument whose name is among the         *)
(* parameters still to satisfy removes that parameter.                     *)
RECURSIVE retain_unnamed(_, _, _)
retain_unnamed(pts, arguments, i) ==
    IF i > Len(arguments)
    THEN pts
    ELSE retain_unnamed(
             IF /\ arguments[i].name # NoName
                /\ \E j \in DOMAIN pts : pts[j].name = arguments[i].name
             THEN SelectSeq(pts, LAMBDA p : p.name # arguments[i].name)
             ELSE pts,
             arguments, i + 1)

(* A variant that forgets the named arguments. *)
params_to_satisfy_all(params, arguments) == params

params_to_satisfy(params, arguments) == retain_unnamed(params, arguments, 1)

params_without_value(pts) == Len(SelectSeq(pts, LAMBDA p : ~has_initial(p)))

(* The arity check: the parameters still to satisfy that have no default   *)
(* against arguments.len(), the number of all the arguments passed.        *)
too_few_arguments(pts, arguments) == params_without_value(pts) > Len(arguments)

(* Every default-valued parameter, in declaration order.  run_expression   *)
(* reads self.environment, which at this point is still the caller's       *)
(* frame: the new frame is installed only after the binding.               *)
RECURSIVE bind_defaults(_, _, _, _)
bind_defaults(params, i, new_environment, st) ==
    IF i > Len(params)
    THEN Ok(st, new_environment)
    ELSE IF ~has_initial(params[i])
    THEN bind_defaults(params, i + 1, new_environment, st)
    ELSE Then(RunExpression(params[i].initial, st), LAMBDA r :
             bind_defaults(params, i + 1,
                           EnvSet(new_environment, params[i].name, r.val), r.st))

(* Every named argument, under its name. *)
RECURSIVE bind_named(_, _, _)
bind_named(arguments, i, new_environment) ==
    IF i > Len(arguments)
    THEN new_environment
    ELSE bind_named(arguments, i + 1,
                    IF arguments[i].name # NoName
                    THEN EnvSet(new_environment, arguments[i].name, arguments[i].value)
                    ELSE new_environment)

(* The unnamed arguments zipped with the parameters still to satisfy. *)
RECURSIVE bind_positional(_, _, _, _)
bind_positional(pts, nameless, i, new_environment) ==
    IF i > Len(pts) \/ i > Len(nameless)
    THEN new_environment
    ELSE bind_positional(pts, nameless, i + 1,
                         EnvSet(new_environment, pts[i].name, nameless[i].value))

nameless_arguments(arguments) == SelectSeq(arguments, LAMBDA arg : arg.name = NoName)

(* The end of call.  The body's Return and its normal end restore the      *)
(* caller's frame; `Err(err) => return Err(err)` returns at once, with     *)
(* self.environment still the frame of the call.                           *)
leave(name, rb, old_environment) ==
    IF rb.sig \in {"Ok", "Return"}
    THEN Ok(Observe([rb.st EXCEPT !.environment = old_environment],
                    [ev |-> "Leave", name |-> name, how |-> rb.sig,
                     before |-> old_environment, after |-> old_environment]),
            rb.val)
    ELSE [rb EXCEPT !.st = Observe(rb.st,
                    [ev |-> "Leave", name |-> name, how |-> rb.sig,
                     before |-> old_environment, after |-> rb.st.environment])]

(* The body of the function, run in the new frame. *)
enter(callable, params, arguments, this, captured, new_environment, st) ==
    leave(callable.name,
          RunBlock(callable.body, 1,
                   Observe([st EXCEPT !.environment = new_environment],
                           [ev |-> "Enter", name |-> callable.name, params |-> params,
                            arguments |-> arguments, this |-> this,
                            captured |-> captured, caller |-> st.environment,
                            frame |-> new_environment])),
          st.environment)

(* From the arity check to the body. *)
bind_and_run(callable, params, arguments, this, captured, with_this, st) ==
    IF too_few_arguments(params_to_satisfy(params, arguments), arguments)
    THEN Err(st, "TooFewArguments",
             <<callable.name, Len(arguments),
               params_without_value(params_to_satisfy(params, arguments))>>)
    ELSE Then(bind_defaults(params, 1, with_this, st), LAMBDA rd :
             enter(callable, params, arguments, this, captured,
                   bind_positional(params_to_satisfy(params, arguments),
                                   nameless_arguments(arguments), 1,
                                   bind_named(arguments, 1, rd.val)),
                   rd.st))

(* A variant that never binds the receiver. *)
binds_this_never(callable) == FALSE

binds_this(callable) ==
    /\ callable.context # NoExpr
    /\ Len(callable.params) > 0
    /\ callable.params[1] = Parameter("this", NoExpr)

captured_environment(callable) ==
    IF callable.environment # NoEnv THEN callable.environment ELSE EnvNew

CallFunction(callable, arguments, st) ==
    IF binds_this(callable)
    THEN Then(RunExpression(callable.context, st), LAMBDA rc :
             bind_and_run(callable,
                          SelectSeq(callable.params, LAMBDA p : p.name # "this"),
                          arguments, rc.val, captured_environment(callable),
                          EnvSet(captured_environment(callable), "this", rc.val),
                          rc.st))
    ELSE bind_and_run(callable, callable.params, arguments, NoVal,
                      captured_environment(callable), captured_environment(callable), st)

(* A NativeMethodCallback of the standard library: it is handed the       *)
(* receiver and the argument values and produces a value.                 *)
callback(name, context, arguments, st) ==
    Ok(Observe(st, [ev |-> "Native", name |-> name, this |-> context,
                    arguments |-> arguments, caller |-> st.environment]),
       VNull)

CallNativeMethod(callable, arguments, st) ==
    Then(RunExpression(callable.context, st), LAMBDA rc :
        callback(callable.name, rc.val, arguments, rc.st))

Call(callable, arguments, st) ==
    CASE callable.k = "Constant" -> Call(callable.inner, arguments, st)
      [] callable.k = "NativeMethod" -> CallNativeMethod(callable, arguments, st)
      [] callable.k = "Function" -> CallFunction(callable, arguments, st)
      [] OTHER -> Panic(st)

----------------------------------------------------------------------------
(* Properties, methods and struct instances.                               *)

(* The first data field of a definition that has a default (Iterator::find). *)
first_with_initial(fields) ==
    IF \E j \in DOMAIN fields : has_initial(fields[j])
    THEN <<fields[CHOOSE j \in DOMAIN fields :
                      /\ has_initial(fields[j])
                      /\ \A h \in 1..(j - 1) : ~has_initial(fields[h])]>>
    ELSE <<>>

field_initial(fields, field) ==
    IF \E j \in DOMAIN fields : fields[j].name = field
    THEN fields[CHOOSE j \in DOMAIN fields :
                    /\ fields[j].name = field
                    /\ \A h \in 1..(j - 1) : fields[h].name # field].initial
    ELSE NoExpr

with_context(st, initial, target) ==
    IF initial.k = "Function"
    THEN Ok(st, [initial EXCEPT !.context = target])
    ELSE Ok(st, initial)

owner_name(target) == IF target.e = "Identifier" THEN target.name ELSE "None"

(* A field the instance's environment binds. *)
instance_property(found, field, target, expression, st) ==
    IF found.k = "Function"
    THEN IF expression.e = "MethodCall"
         THEN Ok(st, [found EXCEPT !.context = target])
         ELSE Err(st, "UndefinedField", <<owner_name(target), field>>)
    ELSE IF expression.e = "GetProperty"
         THEN Ok(st, found)
         ELSE Err(st, "UndefinedField", <<owner_name(target), field>>)

get_property(value, field, target, expression, st) ==
    CASE value.k = "StructInstance" ->
           IF EnvGet(st.senvs[value.environment], field) # NoVal
           THEN instance_property(EnvGet(st.senvs[value.environment], field),
                                  field, target, expression, st)
           ELSE IF field_initial(value.definition.fields, field) # NoExpr
           THEN Then(RunExpression(field_initial(value.definition.fields, field), st),
                     LAMBDA r : with_context(r.st, r.val, target))
           ELSE Err(st, "UndefinedField", <<value.definition.name, field>>)
      [] value.k = "Struct" ->
           IF EnvGet(st.mtabs[value.methods], field) # NoVal
           THEN Ok(st, EnvGet(st.mtabs[value.methods], field))
           ELSE IF field_initial(value.fields, field) # NoExpr
           THEN Then(RunExpression(field_initial(value.fields, field), st),
                     LAMBDA r : with_context(r.st, r.val, target))
           ELSE Err(st, "UndefinedMethod", <<value.name, field>>)
      [] value.k \in {"Number", "List"} ->
           IF expression.e = "MethodCall"
           THEN Ok(st, VNativeMethod(field, target))
           ELSE Panic(st)
      [] value.k = "Constant" -> get_property(value.inner, field, target, expression, st)
      [] OTHER -> Panic(st)

(* Expression::MethodCall *)
RunMethodCall(expression, st) ==
    Then(RunExpression(expression.target, st), LAMBDA ri :
        Then(get_property(ri.val, expression.field, expression.target, expression,
                          Observe(ri.st, [ev |-> "Resolve", field |-> expression.field,
                                          instance |-> ri.val])),
             LAMBDA rp :
                 Then(RunArguments(expression.arguments, 1, <<>>, rp.st), LAMBDA ra :
                     Call(rp.val, ra.val, ra.st))))

(* Expression::GetProperty *)
RunGetProperty(expression, st) ==
    Then(RunExpression(expression.target, st), LAMBDA ri :
        get_property(ri.val, expression.field, expression.target, expression, ri.st))

(* Expression::SetProperty *)
rebind_target(target, value, st) ==
    IF target.e = "Identifier"
    THEN Ok([st EXCEPT !.environment = EnvSet(@, target.name, value)], VNull)
    ELSE Panic(st)

RECURSIVE assign_to_instance(_, _, _, _, _, _)
assign_to_instance(instance, field, value, target, expression, st) ==
    CASE instance.k = "StructInstance" ->
           Ok([st EXCEPT !.senvs[instance.environment] = EnvSet(@, field, value)], VNull)
      [] instance.k = "Struct" ->
           IF value.k # "Function"
           THEN Err(st, "InvalidMethodAssignmentTarget", <<typestring(instance)>>)
           ELSE Ok([st EXCEPT !.mtabs[instance.methods] = EnvSet(@, field, value)], VNull)
      [] instance.k = "Constant" ->
           assign_to_instance(instance.inner, field, value, target, expression, st)
      [] OTHER ->
           Then(get_property(instance, field, target, expression, st), LAMBDA rp :
               Then(Call(rp.val, <<ArgumentValued(field, value)>>, rp.st), LAMBDA rr :
                   rebind_target(target, rr.val, rr.st)))

RunSetProperty(expression, st) ==
    Then(RunExpression(expression.target, st), LAMBDA ri :
        Then(RunExpression(expression.value, ri.st), LAMBDA rv :
            assign_to_instance(ri.val, expression.field, rv.val,
                               expression.target, expression, rv.st)))

(* Expression::Struct, a struct literal.  The supplied fields in turn: a   *)
(* value that is a struct instance is stored with a cell of its own.       *)
rewrap_shared(value, st) == Ok(st, value)

rewrap(value, st) ==
    IF value.k = "StructInstance"
    THEN Ok([st EXCEPT !.senvs = Append(@, st.senvs[value.environment])],
            VStructInstance(Len(st.senvs) + 1, value.definition))
    ELSE Ok(st, value)

RECURSIVE supplied_fields(_, _, _, _, _)
supplied_fields(definition, fields, i, env, st) ==
    IF i > Len(fields)
    THEN Ok(st, env)
    ELSE IF ~\E j \in DOMAIN definition.fields :
                definition.fields[j].name = fields[i].name
    THEN Err(st, "UndefinedField", <<definition.name, fields[i].name>>)
    ELSE Then(RunExpression(fields[i].value, st), LAMBDA r :
             Then(rewrap(r.val, r.st), LAMBDA rw :
                 supplied_fields(definition, fields, i + 1,
                                 EnvSet(env, fields[i].name, rw.val), rw.st)))

(* The methods of the definition, copied without environment or context. *)
instance_methods(env, methods) ==
    [n \in DOMAIN env \cup DOMAIN methods |->
        IF n \in DOMAIN methods
        THEN [methods[n] EXCEPT !.environment = NoEnv, !.context = NoExpr]
        ELSE env[n]]

(* The default-valued data fields: the first one only (Iterator::find). *)
default_fields(defaults, st) ==
    IF defaults = <<>>
    THEN Ok(st, EnvNew)
    ELSE Then(RunExpression(defaults[1].initial, st), LAMBDA r :
             Ok(r.st, EnvSet(EnvNew, defaults[1].name, r.val)))

instantiate(definition, env, st) ==
    Ok([st EXCEPT !.senvs = Append(@, instance_methods(env, st.mtabs[definition.methods]))],
       VStructInstance(Len(st.senvs) + 1, definition))

RunStruct(expression, st) ==
    Then(RunExpression(expression.definition, st), LAMBDA rd :
        IF rd.val.k # "Struct" THEN Panic(rd.st)
        ELSE Then(default_fields(first_with_initial(rd.val.fields), rd.st), LAMBDA ri :
                 Then(supplied_fields(rd.val, expression.fields, 1, ri.val, ri.st),
                      LAMBDA rf : instantiate(rd.val, rf.val, rf.st))))

----------------------------------------------------------------------------
(* Interpreter::run_expression *)

RunExpression(expression, st) ==
    CASE expression.e = "Number" -> Ok(st, VNumber(expression.n))
      [] expression.e = "Bool" -> Ok(st, VBool(expression.b))
      [] expression.e = "Identifier" -> RunIdentifier(expression.name, st)
      [] expression.e = "Index" -> RunIndex(expression.target, expression.index, st)
      [] expression.e = "MethodCall" -> RunMethodCall(expression, st)
      [] expression.e = "GetProperty" -> RunGetProperty(expression, st)
      [] expression.e = "SetProperty" -> RunSetProperty(expression, st)
      [] expression.e = "Infix" ->
           RunInfix(expression.left, expression.op, expression.right, st)
      [] expression.e = "List" -> RunList(expression.items, st)
      [] expression.e = "Closure" -> RunClosure(expression.params, expression.body, st)
      [] expression.e = "Struct" -> RunStruct(expression, st)
      [] expression.e = "Call" -> RunCall(expression.callable, expression.arguments, st)
      [] expression.e = "MathAssign" ->
           RunMathAssign(expression.target, expression.op, expression.value, st)
      [] expression.e = "Assign" -> RunAssign(expression.target, expression.value, st)
      [] expression.e = "Prefix" -> RunPrefix(expression.op, expression.right, st)
      [] OTHER -> Panic(st)

----------------------------------------------------------------------------
(* Interpreter::run_statement *)

(* Statement::CreateDeclaration *)
RunCreateDeclaration(name, initial, st) ==
    IF initial = NoExpr
    THEN Ok([st EXCEPT !.environment = EnvSet(@, name, VNull)], VNull)
    ELSE Then(RunExpression(initial, st), LAMBDA r :
             Ok([r.st EXCEPT !.environment = EnvSet(@, name, r.val)], VNull))

(* Statement::ConstDeclaration: the value of the initialiser, wrapped. *)
constant_of(value) == VConstant(value)

RunConstDeclaration(name, initial, st) ==
    Then(RunExpression(initial, st), LAMBDA r :
        Ok([r.st EXCEPT !.environment = EnvSet(@, name, constant_of(r.val))], VNull))

(* Statement::FunctionDeclaration *)
RunFunctionDeclaration(name, params, body, st) ==
    Ok([st EXCEPT !.globals = EnvSet(@, name,
                                     VFunction(name, params, body, NoEnv, NoExpr))],
       VNull)

(* Statement::StructDeclaration: closure-valued fields become methods that *)
(* capture a copy of the current frame, the others stay data fields.       *)
is_method(field) == field.initial # NoExpr /\ field.initial.e = "Closure"

last_method(fields, n) ==
    CHOOSE j \in DOMAIN fields :
        /\ fields[j].name = n /\ is_method(fields[j])
        /\ \A h \in (j + 1)..Len(fields) : ~(fields[h].name = n /\ is_method(fields[h]))

struct_methods(fields, env) ==
    [n \in {fields[j].name : j \in {h \in DOMAIN fields : is_method(fields[h])}} |->
        VFunction(n, fields[last_method(fields, n)].initial.params,
                  fields[last_method(fields, n)].initial.body, env, NoExpr)]

RunStructDeclaration(name, fields, st) ==
    Ok([st EXCEPT
           !.mtabs = Append(@, struct_methods(fields, st.environment)),
           !.globals =
               EnvSet(@, name,
                      VStruct(name, SelectSeq(fields, LAMBDA fd : ~is_method(fd)),
                              Len(st.mtabs) + 1))],
       VNull)

(* Statement::For.  The iteration holds items.borrow() until the statement *)
(* returns.  An empty list returns before anything is bound or dropped.    *)
for_bind(stmt, item, i, env) ==
    IF stmt.index # NoName
    THEN EnvSet(EnvSet(env, stmt.value, item), stmt.index, VNumber(i - 1))
    ELSE EnvSet(env, stmt.value, item)

RECURSIVE for_items(_, _, _, _)
for_next_forgiving(stmt, ref, i, r) ==
    CASE r.sig = "Break" -> Ok(r.st, VNull)
      [] OTHER -> for_items(stmt, ref, i + 1, r.st)

for_next(stmt, ref, i, r) ==
    CASE r.sig = "Break" -> Ok(r.st, VNull)
      [] r.sig \in {"Continue", "Ok"} -> for_items(stmt, ref, i + 1, r.st)
      [] OTHER -> r

for_items(stmt, ref, i, st) ==
    IF i > Len(st.lists[ref])
    THEN Ok(st, VNull)
    ELSE for_next(stmt, ref, i,
                  RunBlock(stmt.then, 1,
                           [st EXCEPT !.environment =
                                for_bind(stmt, st.lists[ref][i], i, @)]))

for_cleanup(stmt, env) ==
    IF stmt.index # NoName
    THEN EnvDrop(EnvDrop(env, stmt.value), stmt.index)
    ELSE EnvDrop(env, stmt.value)

for_end(stmt, borrowed, rl) ==
    IF rl.sig # "Ok"
    THEN [rl EXCEPT !.st.borrowed = borrowed]
    ELSE Ok([rl.st EXCEPT !.borrowed = borrowed,
                          !.environment = for_cleanup(stmt, @)], VNull)

for_over(stmt, iterable, st) ==
    IF iterable.k # "List"
    THEN Err(st, "InvalidIterable", <<typestring(iterable)>>)
    ELSE IF Len(st.lists[iterable.ref]) = 0
    THEN Ok(st, VNull)
    ELSE for_end(stmt, st.borrowed,
                 for_items(stmt, iterable.ref, 1,
                           [st EXCEPT !.borrowed = @ \cup {iterable.ref}]))

RunFor(stmt, st) ==
    Then(RunExpression(stmt.iterable, st), LAMBDA ri : for_over(stmt, ri.val, ri.st))

(* Statement::While.  A run that needs more than MaxIter iterations of     *)
(* while and loop statements is cut off with the outcome Diverges.         *)
RECURSIVE RunWhile(_, _)
while_next_outward(stmt, r) ==
    CASE r.sig \in {"Continue", "Ok"} -> RunWhile(stmt, r.st)
      [] OTHER -> r

while_next(stmt, r) ==
    CASE r.sig = "Break" -> Ok(r.st, VNull)
      [] r.sig \in {"Continue", "Ok"} -> RunWhile(stmt, r.st)
      [] OTHER -> r

RunWhile(stmt, st) ==
    IF st.fuel = 0
    THEN Err(st, "Diverges", <<>>)
    ELSE Then(RunExpression(stmt.condition.expression, st), LAMBDA rc :
             IF to_bool(rc.val)
             THEN while_next(stmt, RunBlock(stmt.condition.then, 1,
                                            [rc.st EXCEPT !.fuel = @ - 1]))
             ELSE Ok(rc.st, VNull))

(* Statement::Loop *)
RECURSIVE RunLoop(_, _)
loop_next_absorbing(stmt, r) ==
    CASE r.sig \in {"Break", "Return"} -> Ok(r.st, VNull)
      [] r.sig \in {"Continue", "Ok"} -> RunLoop(stmt, r.st)
      [] OTHER -> r

loop_next(stmt, r) ==
    CASE r.sig = "Break" -> Ok(r.st, VNull)
      [] r.sig \in {"Continue", "Ok"} -> RunLoop(stmt, r.st)
      [] OTHER -> r

RunLoop(stmt, st) ==
    IF st.fuel = 0
    THEN Err(st, "Diverges", <<>>)
    ELSE loop_next(stmt, RunBlock(stmt.body, 1, [st EXCEPT !.fuel = @ - 1]))

(* Statement::If.  The elif blocks in order: the value tells whether one   *)
(* of them was satisfied.                                                  *)
RECURSIVE run_others(_, _, _)
run_others(blocks, i, st) ==
    IF i > Len(blocks)
    THEN Ok(st, VBool(FALSE))
    ELSE Then(RunExpression(blocks[i].expression, st), LAMBDA re :
             IF to_bool(re.val)
             THEN Then(RunBlock(blocks[i].then, 1, re.st),
                       LAMBDA rb : Ok(rb.st, VBool(TRUE)))
             ELSE run_others(blocks, i + 1, re.st))

run_otherwise_always(stmt, satisfied, st) ==
    IF stmt.otherwise.b = "Some"
    THEN RunBlock(stmt.otherwise.block, 1, st)
    ELSE Ok(st, VNull)

run_otherwise(stmt, satisfied, st) ==
    IF stmt.otherwise.b = "Some" /\ ~satisfied
    THEN RunBlock(stmt.otherwise.block, 1, st)
    ELSE Ok(st, VNull)

RunIf(stmt, st) ==
    Then(RunExpression(stmt.condition.expression, st), LAMBDA rc :
        IF to_bool(rc.val)
        THEN RunBlock(stmt.condition.then, 1, rc.st)
        ELSE Then(run_others(stmt.others_conditions, 1, rc.st),
                  LAMBDA ro : run_otherwise(stmt, ro.val.b, ro.st)))

RunStatement(statement, st) ==
    CASE statement.s = "CreateDeclaration" ->
           RunCreateDeclaration(statement.name, statement.initial, st)
      [] statement.s = "ConstDeclaration" ->
           RunConstDeclaration(statement.name, statement.initial, st)
      [] statement.s = "FunctionDeclaration" ->
           RunFunctionDeclaration(statement.name, statement.params, statement.body, st)
      [] statement.s = "StructDeclaration" ->
           RunStructDeclaration(statement.name, statement.fields, st)
      [] statement.s = "For" -> RunFor(statement, st)
      [] statement.s = "While" -> RunWhile(statement, st)
      [] statement.s = "Loop" -> RunLoop(statement, st)
      [] statement.s = "If" -> RunIf(statement, st)
      [] statement.s = "Expression" ->
           Then(RunExpression(statement.expression, st), LAMBDA r : Ok(r.st, VNull))
      [] statement.s = "Return" ->
           Then(RunExpression(statement.value, st), LAMBDA r : Return(r.st, r.val))
      [] statement.s = "Break" -> Err(st, "Break", <<>>)
      [] statement.s = "Continue" -> Err(st, "Continue", <<>>)
      [] OTHER -> Panic(st)

----------------------------------------------------------------------------
(* Interpreter::run: one top-level statement per step, until one fails.    *)

St ==
    [environment |-> environment, globals |-> globals, lists |-> lists,
     senvs |-> senvs, mtabs |-> mtabs, borrowed |-> {}, log |-> <<>>,
     fuel |-> MaxIter]

Running == outcome.sig = "Ok"

Commit(statement, r) ==
    /\ environment' = r.st.environment
    /\ globals' = r.st.globals
    /\ lists' = r.st.lists
    /\ senvs' = r.st.senvs
    /\ mtabs' = r.st.mtabs
    /\ log' = r.st.log
    /\ program' = Append(program, statement)
    /\ outcome' = [sig |-> r.sig, val |-> r.val, err |-> r.err]
    /\ UNCHANGED <<tokens, parsed>>

Run(statement) == Running /\ Commit(statement, RunStatement(statement, St))

NoStatement == [s |-> "None"]

NoParse == [sig |-> "None"]                 \* parse has not been called

last == IF program = <<>> THEN NoStatement ELSE program[Len(program)]

InitWith(env) ==
    /\ environment = env
    /\ globals = EnvNew
    /\ lists = <<>>
    /\ senvs = <<>>
    /\ mtabs = <<>>
    /\ log = <<>>
    /\ program = <<>>
    /\ outcome = [sig |-> "Ok", val |-> VNull, err |-> <<>>]
    /\ tokens = <<>>
    /\ parsed = NoParse

----------------------------------------------------------------------------
(* SpecCall: programs that declare `fn f(..)` with up to three parameters  *)
(* a, b, c (each with or without a default), create the variable x, and    *)
(* call f with every mix of named and unnamed arguments.                   *)

ParamChoices(name, initials) ==
    {<<>>} \cup {<<Parameter(name, d)>> : d \in initials}

ParamLists ==
    {pa \o pb \o pc :
        pa \in ParamChoices("a", {NoExpr, ExNumber(9)}),
        pb \in ParamChoices("b", {NoExpr, ExNumber(9), ExIdentifier("x")}),
        pc \in ParamChoices("c", {NoExpr, ExNumber(9)})}

ArgNames == {NoName, "a", "b", "c"}

(* The argument lists of length n; the i-th argument's value is i. *)
RECURSIVE ArgListsOf(_)
ArgListsOf(n) ==
    IF n = 0 THEN {<<>>}
    ELSE {Append(args, Argument(nm, ExNumber(n))) :
              args \in ArgListsOf(n - 1), nm \in ArgNames}

ArgLists == UNION {ArgListsOf(n) : n \in 0..MaxArgs}

(* The programs: an optional `create x = 7`, then `fn f(..) { return 0 }`, *)
(* then one call `f(..)`.                                                  *)
CallCreate ==
    /\ program = <<>>
    /\ Run(StCreateDeclaration("x", ExNumber(7)))

CallDeclare ==
    \E params \in ParamLists :
        /\ "f" \notin DOMAIN globals
        /\ Run(StFunctionDeclaration("f", params, <<StReturn(ExNumber(0))>>))

CallInvoke ==
    \E args \in ArgLists :
        /\ last.s = "FunctionDeclaration"
        /\ Run(StExpression(ExCall(ExIdentifier("f"), args)))

InitCall == InitWith(EnvNew)

NextCall == CallDeclare \/ CallCreate \/ CallInvoke

SpecCall == InitCall /\ [][NextCall]_vars

(* The calls entered while the last statement ran. *)
Entered == {j \in DOMAIN log : log[j].ev = "Enter"}
Left == {j \in DOMAIN log : log[j].ev = "Leave"}

LastIsCall == last.s = "Expression" /\ last.expression.e = "Call"

----------------------------------------------------------------------------
(* Claims about the calling convention, checked under SpecCall.            *)

NamedAs(arguments, name) == {j \in DOMAIN arguments : arguments[j].name = name}

Greatest(S) == CHOOSE j \in S : \A h \in S : h <= j

(* The parameters no named argument matches, in declaration order. *)
Unmatched(params, arguments) ==
    SelectSeq(params, LAMBDA q : NamedAs(arguments, q.name) = {})

PlaceIn(seq, name) == CHOOSE i \in DOMAIN seq : seq[i].name = name

(* The value of a default expression of these programs: a literal, or the  *)
(* variable the identifier denotes where the call is made.                 *)
DefaultValue(initial, caller) ==
    IF initial.e = "Number" THEN VNumber(initial.n) ELSE EnvGet(caller, initial.name)

(* What the calling convention binds to parameter p of an entered call. *)
Bound(e, p) ==
    IF NamedAs(e.arguments, p.name) # {}
    THEN e.arguments[Greatest(NamedAs(e.arguments, p.name))].value
    ELSE IF PlaceIn(Unmatched(e.params, e.arguments), p.name)
                <= Len(nameless_arguments(e.arguments))
    THEN nameless_arguments(e.arguments)
             [PlaceIn(Unmatched(e.params, e.arguments), p.name)].value
    ELSE IF has_initial(p)
    THEN DefaultValue(p.initial, e.caller)
    ELSE NoVal

ParamNames(params) == {params[i].name : i \in DOMAIN params}

(* C1: when the body of a called function starts, each declared parameter  *)
(* p holds the value of the named argument called p if one was passed (the *)
(* last one, were there several); otherwise the i-th unnamed argument, p   *)
(* being the i-th of the parameters no named argument matches, if that     *)
(* many unnamed arguments were passed; otherwise p's default value (none,  *)
(* and p stays unbound, when p has no default).  Unnamed arguments beyond  *)
(* those parameters bind nothing: every other name of the frame is bound   *)
(* by a named argument or as in the captured environment.                  *)
C1_ParametersBound ==
    \A j \in Entered :
        /\ \A i \in DOMAIN log[j].params :
               EnvGet(log[j].frame, log[j].params[i].name)
                   = Bound(log[j], log[j].params[i])
        /\ \A n \in (DOMAIN log[j].frame \cup DOMAIN log[j].captured)
                      \ ParamNames(log[j].params) :
               EnvGet(log[j].frame, n) =
                   IF NamedAs(log[j].arguments, n) # {}
                   THEN log[j].arguments[Greatest(NamedAs(log[j].arguments, n))].value
                   ELSE EnvGet(log[j].captured, n)

(* f(1, b = 2), or f(1, b = 2, 3), of `fn f(a, b.., c = 9)`: a by          *)
(* position, b by name, c by default.                                      *)
C1_Witness ==
    \E j \in Entered :
        /\ Len(log[j].params) = 3
        /\ Len(log[j].arguments) >= 2
        /\ log[j].arguments[1].name = NoName
        /\ log[j].arguments[2].name = "b"
        /\ EnvGet(log[j].frame, "a") = VNumber(1)
        /\ EnvGet(log[j].frame, "b") = VNumber(2)
        /\ EnvGet(log[j].frame, "c") = VNumber(9)

(* The arity rule of the calling convention, on the call `f(args)` that    *)
(* the last statement made.                                                *)
RequiredCount(params, args) ==
    Cardinality({i \in DOMAIN params :
                     ~has_initial(params[i]) /\ NamedAs(args, params[i].name) = {}})

PositionalCount(args) == Cardinality(NamedAs(args, NoName))

(* C2: a call fails with TooFewArguments exactly when it passes fewer      *)
(* unnamed arguments than there are parameters that have no default and    *)
(* are not matched by a named argument.                                    *)
C2_TooFewExactly ==
    (LastIsCall /\ "f" \in DOMAIN globals) =>
        ((outcome.sig = "TooFewArguments")
            <=> (PositionalCount(last.expression.arguments)
                    < RequiredCount(globals["f"].params, last.expression.arguments)))

(* C3: a default expression is evaluated in the new frame: a call never    *)
(* reaches its body having resolved the identifier of a default expression *)
(* that the new frame (the captured environment, the parameters declared   *)
(* before it) and the global table do not bind.                            *)
C3_DefaultsInNewFrame ==
    \A j \in Entered :
        \A i \in DOMAIN log[j].params :
            (/\ has_initial(log[j].params[i])
             /\ log[j].params[i].initial.e = "Identifier")
            => \/ log[j].params[i].initial.name \in DOMAIN log[j].captured
               \/ log[j].params[i].initial.name \in DOMAIN globals
               \/ \E h \in 1..(i - 1) :
                      log[j].params[h].name = log[j].params[i].initial.name

----------------------------------------------------------------------------
(* SpecFrame: programs that create x and then either build the closure     *)
(* `fn() { return x }`, rebind x a few times and call the closure, or      *)
(* declare `fn f() { .. }` with a body that ends in each possible way and  *)
(* call it, directly and from the body of a for loop.                      *)

TheClosure == ExClosure(<<>>, <<StReturn(ExIdentifier("x"))>>)

CallTheClosure == StCreateDeclaration("r", ExCall(ExIdentifier("c"), <<>>))

Rebindings ==
    {StExpression(ExAssign(ExIdentifier("x"), ExNumber(3))),
     StExpression(ExMathAssign(ExIdentifier("x"), "Add", ExNumber(1))),
     StCreateDeclaration("x", ExNumber(5))}

FrameBodies ==
    {<<>>,
     <<StReturn(ExNumber(0))>>,
     <<StBreak>>,
     <<StContinue>>,
     <<StExpression(ExIdentifier("undef"))>>}

FrameCreate ==
    \E n \in {1, 2} :
        /\ program = <<>>
        /\ Run(StCreateDeclaration("x", ExNumber(n)))

FrameClosure ==
    /\ Len(program) = 1
    /\ Run(StCreateDeclaration("c", TheClosure))

FrameRebind ==
    \E statement \in Rebindings :
        /\ "c" \in DOMAIN environment
        /\ "r" \notin DOMAIN environment
        /\ Len(program) < 2 + MaxSteps
        /\ Run(statement)

FrameCallClosure ==
    /\ "c" \in DOMAIN environment
    /\ "r" \notin DOMAIN environment
    /\ Run(CallTheClosure)

FrameDeclare ==
    \E body \in FrameBodies :
        /\ Len(program) = 1
        /\ Run(StFunctionDeclaration("f", <<>>, body))

FrameCall ==
    /\ "f" \in DOMAIN globals
    /\ Len(program) < 2 + MaxSteps
    /\ Run(StExpression(ExCall(ExIdentifier("f"), <<>>)))

FrameLoop ==
    /\ "f" \in DOMAIN globals
    /\ Len(program) < 2 + MaxSteps
    /\ Run(StFor(ExList(<<ExNumber(1), ExNumber(2)>>), "i", NoName,
                 <<StExpression(ExCall(ExIdentifier("f"), <<>>))>>))

FrameRead ==
    /\ last.s = "For"
    /\ Run(StCreateDeclaration("r", ExIdentifier("x")))

InitFrame == InitWith(EnvNew)

NextFrame ==
    \/ FrameCreate
    \/ FrameClosure
    \/ FrameRebind
    \/ FrameCallClosure
    \/ FrameDeclare
    \/ FrameCall
    \/ FrameLoop
    \/ FrameRead

SpecFrame == InitFrame /\ [][NextFrame]_vars

(* C4: whenever a call of a user function hands control back to its        *)
(* caller (the body ran to its end, a Return, or a Break, Continue or      *)
(* error leaving the body) the current environment is again the frame that *)
(* was current immediately before the call.                                *)
C4_EnvironmentRestored ==
    \A j \in Left : log[j].after = log[j].before

(* C5: the closure `fn() { return x }` built while x is bound to v still   *)
(* returns v when it is called after x has been rebound, by Assign,        *)
(* MathAssign or CreateDeclaration, in the frame that built it.            *)
C5_ClosureKeepsBinding ==
    (/\ Len(program) >= 3
     /\ program[2] = StCreateDeclaration("c", TheClosure)
     /\ last = CallTheClosure)
    => /\ outcome.sig = "Ok"
       /\ EnvGet(environment, "r") = VNumber(program[1].initial.n)

(* x = 1, the closure, x rebound by all three kinds of statement, and the  *)
(* closure still returns 1.                                                *)
C5_Witness ==
    /\ Len(program) = 6
    /\ last = CallTheClosure
    /\ {program[3], program[4], program[5]} = Rebindings
    /\ EnvGet(environment, "x") # VNumber(program[1].initial.n)
    /\ EnvGet(environment, "r") = VNumber(program[1].initial.n)

----------------------------------------------------------------------------
(* SpecList: programs that create a list under the name a, bind b by       *)
(* evaluating a, then append to the list and overwrite its elements        *)
(* through either name, and read an element through either name.  The      *)
(* statement at position k of the program writes the value 10 + k.         *)

ListNames == {"a", "b"}

ListLiterals ==
    {ExList(<<>>), ExList(<<ExNumber(1)>>), ExList(<<ExNumber(1), ExNumber(2)>>)}

ListAppendTo(nm, v) ==
    StExpression(ExAssign(ExIndex(ExIdentifier(nm), NoExpr), ExNumber(v)))

ListOverwriteAt(nm, i, v) ==
    StExpression(ExAssign(ExIndex(ExIdentifier(nm), ExNumber(i)), ExNumber(v)))

ListReadAt(nm, i) == StCreateDeclaration("r", ExIndex(ExIdentifier(nm), ExNumber(i)))

ListCreate ==
    \E literal \in ListLiterals :
        /\ program = <<>>
        /\ Run(StCreateDeclaration("a", literal))

ListAlias ==
    /\ Len(program) = 1
    /\ Run(StCreateDeclaration("b", ExIdentifier("a")))

ListWritable ==
    /\ "b" \in DOMAIN environment
    /\ "r" \notin DOMAIN environment
    /\ Len(program) < 2 + MaxSteps

ListAppend ==
    \E nm \in ListNames :
        /\ ListWritable
        /\ Len(lists[environment[nm].ref]) < MaxLen
        /\ Run(ListAppendTo(nm, 10 + Len(program) + 1))

ListOverwrite ==
    \E nm \in ListNames, i \in {0, 1} :
        /\ ListWritable
        /\ Run(ListOverwriteAt(nm, i, 10 + Len(program) + 1))

ListRead ==
    \E nm \in ListNames, i \in 0..MaxLen :
        /\ "b" \in DOMAIN environment
        /\ "r" \notin DOMAIN environment
        /\ Run(ListReadAt(nm, i))

InitList == InitWith(EnvNew)

NextList == ListCreate \/ ListAlias \/ ListAppend \/ ListOverwrite \/ ListRead

SpecList == InitList /\ [][NextList]_vars

(* What a list holds after one more statement: an append adds the value at *)
(* the end, an overwrite within the list replaces one element, and any     *)
(* other statement leaves the list as it is.                               *)
IsWrite(statement) ==
    /\ statement.s = "Expression"
    /\ statement.expression.e = "Assign"
    /\ statement.expression.target.e = "Index"

Written(items, statement) ==
    IF ~IsWrite(statement)
    THEN items
    ELSE IF statement.expression.target.index = NoExpr
    THEN Append(items, VNumber(statement.expression.value.n))
    ELSE IF statement.expression.target.index.n + 1 <= Len(items)
    THEN [items EXCEPT ![statement.expression.target.index.n + 1] =
                           VNumber(statement.expression.value.n)]
    ELSE items

(* The elements of the list of a program `create a = [..]  create b = a`   *)
(* followed by writes through a and b, after its first k statements.       *)
RECURSIVE LiteralValues(_)
LiteralValues(items) ==
    IF items = <<>>
    THEN <<>>
    ELSE <<VNumber(Head(items).n)>> \o LiteralValues(Tail(items))

RECURSIVE ListAfter(_, _)
ListAfter(prog, k) ==
    IF k <= 2
    THEN LiteralValues(prog[1].initial.items)
    ELSE Written(ListAfter(prog, k - 1), prog[k])

ReadThrough(nm) == lists[environment[nm].ref]

(* C6: a and b being bound to the same list, after any sequence of appends *)
(* and indexed overwrites through either name the list read through a and  *)
(* the list read through b are the same, element by element: the elements  *)
(* the writes produce in order, an appended value being the last one; and  *)
(* an element read through either name is that element.                    *)
C6_ListsShared ==
    (Len(program) >= 2 /\ "b" \in DOMAIN environment) =>
        /\ ReadThrough("a") = ListAfter(program, Len(program))
        /\ ReadThrough("b") = ListAfter(program, Len(program))
        /\ (last.s = "CreateDeclaration" /\ last.name = "r" /\ outcome.sig = "Ok")
               => EnvGet(environment, "r")
                      = ListAfter(program, Len(program))[last.initial.index.n + 1]
        /\ (IsWrite(last) /\ last.expression.target.index = NoExpr /\ outcome.sig = "Ok")
               => /\ Len(ReadThrough("a")) = Len(ListAfter(program, Len(program) - 1)) + 1
                  /\ ReadThrough("a")[Len(ReadThrough("a"))]
                         = VNumber(last.expression.value.n)

(* `create a = [1, 2]  create b = a  b[] = 13  a[0] = 14  create r = a[2]`: *)
(* the value appended through b is read through a, the value written       *)
(* through a is seen through b.                                            *)
C6_Witness ==
    /\ Len(program) = 5
    /\ program[3] = ListAppendTo("b", 13)
    /\ program[4] = ListOverwriteAt("a", 0, 14)
    /\ last = ListReadAt("a", 2)
    /\ EnvGet(environment, "r") = VNumber(13)
    /\ ReadThrough("b") = <<VNumber(14), VNumber(2), VNumber(13)>>

----------------------------------------------------------------------------
(* SpecConst: programs of const declarations of k and b (of a number, or   *)
(* of the value of k), the function declaration `fn k() { }`, which puts   *)
(* an entry named k in the global table, and assignments to k and b.       *)

ConstNames == {"k", "b"}

ConstDeclare ==
    \E nm \in ConstNames, initial \in {ExNumber(1), ExIdentifier("k")} :
        /\ Len(program) < MaxSteps
        /\ Run(StConstDeclaration(nm, initial))

ConstFunction ==
    /\ Len(program) < MaxSteps
    /\ "k" \notin DOMAIN globals
    /\ Run(StFunctionDeclaration("k", <<>>, <<>>))

ConstAssign ==
    \E nm \in ConstNames :
        /\ Len(program) < MaxSteps
        /\ Run(StExpression(ExAssign(ExIdentifier(nm), ExNumber(2))))

InitConst == InitWith(EnvNew)

NextConst == ConstDeclare \/ ConstFunction \/ ConstAssign

SpecConst == InitConst /\ [][NextConst]_vars

(* The names an earlier statement of the program declared by `const`. *)
DeclaredConst ==
    {program[j].name :
        j \in {h \in 1..(Len(program) - 1) : program[h].s = "ConstDeclaration"}}

LastAssignsTo(nm) ==
    /\ last.s = "Expression"
    /\ last.expression.e = "Assign"
    /\ last.expression.target = ExIdentifier(nm)

(* C7: an assignment whose target is a name declared by `const` yields     *)
(* CannotAssignValueToConstant and leaves the name bound to its constant,  *)
(* whatever the global table holds.                                        *)
C7_ConstantsImmutable ==
    \A nm \in DeclaredConst :
        LastAssignsTo(nm) =>
            /\ outcome.sig = "CannotAssignValueToConstant"
            /\ EnvGet(environment, nm).k = "Constant"

(* C8: no Constant has a Constant as its inner value. *)
C8_NoNestedConstant ==
    \A nm \in DOMAIN environment :
        environment[nm].k = "Constant" => environment[nm].inner.k # "Constant"

----------------------------------------------------------------------------
(* SpecFor: programs that may bind x and i beforehand, create a list l of  *)
(* up to MaxLen numbers, and run one for loop over l, with or without an   *)
(* index variable, whose body does nothing, breaks, continues or creates a *)
(* variable.                                                               *)

RECURSIVE NumberItems(_)
NumberItems(n) == IF n = 0 THEN <<>> ELSE Append(NumberItems(n - 1), ExNumber(n))

ForBodies ==
    {<<>>,
     <<StBreak>>,
     <<StContinue>>,
     <<StCreateDeclaration("y", ExIdentifier("x"))>>}

ForPrebind ==
    \E nm \in {"x", "i"} :
        /\ nm \notin DOMAIN environment
        /\ "l" \notin DOMAIN environment
        /\ Run(StCreateDeclaration(nm, ExNumber(5)))

ForList ==
    \E n \in 0..MaxLen :
        /\ "l" \notin DOMAIN environment
        /\ Run(StCreateDeclaration("l", ExList(NumberItems(n))))

ForRun ==
    \E index \in {NoName, "i"}, body \in ForBodies :
        /\ "l" \in DOMAIN environment
        /\ last.s # "For"
        /\ Run(StFor(ExIdentifier("l"), "x", index, body))

InitFor == InitWith(EnvNew)

NextFor == ForPrebind \/ ForList \/ ForRun

SpecFor == InitFor /\ [][NextFor]_vars

(* C9: after a for statement has finished, by exhausting the list or by a  *)
(* Break, neither its value variable nor its index variable is bound in    *)
(* the frame it ran in, whatever the list and whatever was bound before.   *)
C9_LoopVariablesDropped ==
    (last.s = "For" /\ outcome.sig = "Ok") =>
        /\ last.value \notin DOMAIN environment
        /\ last.index # NoName => last.index \notin DOMAIN environment

----------------------------------------------------------------------------
(* SpecMethod: programs that declare                                       *)
(*     struct P { n = 0  fn m(this) { .. } }                               *)
(* (m returns this.n, or sets this.n to 5) and                             *)
(*     fn g(q) { q.n = q.n + 1  return P { n: q.n } },                     *)
(* create the instance p, and call m on the targets p, P { n: 1 } and      *)
(* g(p).                                                                   *)

This == ExIdentifier("this")

MethodBodies ==
    {<<StReturn(ExGetProperty(This, "n"))>>,
     <<StExpression(ExSetProperty(This, "n", ExNumber(5)))>>}

Field(name, value) == [name |-> name, value |-> value]

TheMaker ==
    StFunctionDeclaration("g", <<Parameter("q", NoExpr)>>,
        <<StExpression(ExSetProperty(ExIdentifier("q"), "n",
              ExInfix(ExGetProperty(ExIdentifier("q"), "n"), "Add", ExNumber(1)))),
          StReturn(ExStruct(ExIdentifier("P"),
              <<Field("n", ExGetProperty(ExIdentifier("q"), "n"))>>))>>)

MethodTargets ==
    {ExIdentifier("p"),
     ExStruct(ExIdentifier("P"), <<Field("n", ExNumber(1))>>),
     ExCall(ExIdentifier("g"), <<Argument(NoName, ExIdentifier("p"))>>)}

MethodStruct ==
    \E body \in MethodBodies :
        /\ program = <<>>
        /\ Run(StStructDeclaration("P",
                <<Parameter("n", ExNumber(0)),
                  Parameter("m", ExClosure(<<Parameter("this", NoExpr)>>, body))>>))

MethodMaker ==
    /\ Len(program) = 1
    /\ Run(TheMaker)

MethodInstance ==
    \E n \in {1, 2} :
        /\ Len(program) = 2
        /\ Run(StCreateDeclaration("p",
                ExStruct(ExIdentifier("P"), <<Field("n", ExNumber(n))>>)))

MethodCallOn ==
    \E target \in MethodTargets :
        /\ "p" \in DOMAIN environment
        /\ Len(program) < 3 + MaxSteps
        /\ Run(StCreateDeclaration("r", ExMethodCall(target, "m", <<>>)))

InitMethod == InitWith(EnvNew)

NextMethod == MethodStruct \/ MethodMaker \/ MethodInstance \/ MethodCallOn

SpecMethod == InitMethod /\ [][NextMethod]_vars

(* C10: a method call T.m(..) runs the body of m with `this` bound to the  *)
(* instance T evaluated to, the one m was resolved from.                   *)
C10_ThisIsTheTarget ==
    \A i \in DOMAIN log, j \in DOMAIN log :
        (/\ i < j
         /\ log[i].ev = "Resolve"
         /\ log[j].ev = "Enter"
         /\ log[j].name = log[i].field
         /\ log[j].this # NoVal)
        => log[j].this = log[i].instance

----------------------------------------------------------------------------
(* SpecStruct: programs                                                    *)
(*     create x = ..   struct T { a [= ..], b [= ..] }                     *)
(*     create p = T { .. }   x = 9   create r = p.a                        *)
(* with up to MaxFields data fields, each without a default, with a        *)
(* literal default or with the default x, and every choice of supplied     *)
(* fields in the literal.                                                  *)

MaxFields == 2      \* most data fields of a struct

FieldNames == <<"a", "b", "c", "d">>

FieldDefaults == {NoExpr, ExNumber(0), ExIdentifier("x")}

RECURSIVE FieldLists(_)
FieldLists(n) ==
    IF n = 0 THEN {<<>>}
    ELSE {Append(fs, Parameter(FieldNames[n], d)) :
              fs \in FieldLists(n - 1), d \in FieldDefaults}

(* The fields of a literal that supplies the names of S, in declared order. *)
RECURSIVE SuppliedLiteral(_, _)
SuppliedLiteral(n, S) ==
    IF n = 0 THEN <<>>
    ELSE IF FieldNames[n] \in S
    THEN Append(SuppliedLiteral(n - 1, S), Field(FieldNames[n], ExNumber(5)))
    ELSE SuppliedLiteral(n - 1, S)

StructCreate ==
    \E v \in {1, 2} :
        /\ program = <<>>
        /\ Run(StCreateDeclaration("x", ExNumber(v)))

StructDeclare ==
    \E n \in 0..MaxFields : \E fs \in FieldLists(n) :
        /\ Len(program) = 1
        /\ Run(StStructDeclaration("T", fs))

(* The data fields T was declared with. *)
TheFields == IF "T" \in DOMAIN globals THEN globals["T"].fields ELSE <<>>

StructInstance ==
    \E S \in SUBSET {TheFields[j].name : j \in DOMAIN TheFields} :
        /\ Len(program) = 2
        /\ Run(StCreateDeclaration("p",
                ExStruct(ExIdentifier("T"), SuppliedLiteral(Len(TheFields), S))))

StructRebind ==
    /\ Len(program) = 3
    /\ Run(StExpression(ExAssign(ExIdentifier("x"), ExNumber(9))))

StructRead ==
    \E j \in DOMAIN TheFields :
        /\ Len(program) = 4
        /\ Run(StCreateDeclaration("r",
                ExGetProperty(ExIdentifier("p"), TheFields[j].name)))

InitStruct == InitWith(EnvNew)

NextStruct ==
    StructCreate \/ StructDeclare \/ StructInstance \/ StructRebind \/ StructRead

SpecStruct == InitStruct /\ [][NextStruct]_vars

LastIsLiteral ==
    /\ last.s = "CreateDeclaration"
    /\ last.initial.e = "Struct"
    /\ outcome.sig = "Ok"

SuppliedNames(fields) == {fields[j].name : j \in DOMAIN fields}

(* C11: after a struct literal T{..} the environment of the new instance   *)
(* binds every data field of T that has a default: to the supplied value   *)
(* when the literal supplies the field, else to the value of the default   *)
(* expression at instantiation.                                            *)
C11_DefaultsBound ==
    LastIsLiteral =>
        \A j \in DOMAIN TheFields :
            has_initial(TheFields[j]) =>
                EnvGet(senvs[environment["p"].environment], TheFields[j].name)
                    = IF TheFields[j].name \in SuppliedNames(last.initial.fields)
                      THEN VNumber(5)
                      ELSE DefaultValue(TheFields[j].initial, environment)

----------------------------------------------------------------------------
(* SpecLookup: programs that set up the names f and u in two statements    *)
(* (`fn n() {}`, `struct n {}` or `create n = ..`), declare                *)
(* `fn g(n) { return n }`, create r, and then read a name: at top level    *)
(* (`create r = n`), as the parameter of g (`create r = g(3)`) or as a     *)
(* loop variable (`for n in [4] { r = n }`).                               *)

LookupNames == {"f", "u"}

LookupSetups ==
    {StFunctionDeclaration(n, <<>>, <<>>) : n \in LookupNames}
        \cup {StStructDeclaration(n, <<>>) : n \in LookupNames}
        \cup {StCreateDeclaration(n, ExNumber(v)) : n \in LookupNames, v \in {1, 2}}

LookupReads ==
    {StCreateDeclaration("r", ExIdentifier(n)) : n \in LookupNames}
        \cup {StCreateDeclaration("r",
                  ExCall(ExIdentifier("g"), <<Argument(NoName, ExNumber(3))>>))}
        \cup {StFor(ExList(<<ExNumber(4)>>), n, NoName,
                    <<StExpression(ExAssign(ExIdentifier("r"), ExIdentifier(n)))>>) :
                  n \in LookupNames}

LookupSetup ==
    \E statement \in LookupSetups :
        /\ Len(program) < 2
        /\ Run(statement)

LookupDeclare ==
    \E n \in LookupNames :
        /\ Len(program) = 2
        /\ Run(StFunctionDeclaration("g", <<Parameter(n, NoExpr)>>,
                                     <<StReturn(ExIdentifier(n))>>))

LookupResult ==
    /\ Len(program) = 3
    /\ Run(StCreateDeclaration("r", ExNumber(0)))

LookupRead ==
    \E statement \in LookupReads :
        /\ Len(program) = 4
        /\ Run(statement)

InitLookup == InitWith(EnvNew)

NextLookup == LookupSetup \/ LookupDeclare \/ LookupResult \/ LookupRead

SpecLookup == InitLookup /\ [][NextLookup]_vars

LastIsRead == Len(program) = 5

(* The name the last statement reads, and whether the frame it is read in  *)
(* binds it: a parameter and a loop variable are bound where they are read. *)
ReadName ==
    IF last.s = "For" THEN last.value
    ELSE IF last.initial.e = "Call" THEN globals["g"].params[1].name
    ELSE last.initial.name

ReadInFrame ==
    IF last.s = "CreateDeclaration" /\ last.initial.e = "Identifier"
    THEN ReadName \in DOMAIN environment
    ELSE TRUE

(* C12: an identifier bound both in the global table and in the current    *)
(* frame (as a variable, a parameter or a loop variable) evaluates to the  *)
(* global table's value; an identifier bound in neither fails with         *)
(* UndefinedVariable(name).                                                *)
C12_GlobalsFirst ==
    LastIsRead =>
        /\ (ReadName \in DOMAIN globals /\ ReadInFrame) =>
               /\ outcome.sig = "Ok"
               /\ environment["r"] = globals[ReadName]
        /\ (ReadName \notin DOMAIN globals /\ ~ReadInFrame) =>
               /\ outcome.sig = "UndefinedVariable"
               /\ outcome.err = <<ReadName>>

C12_Witness ==
    /\ LastIsRead
    /\ ReadName \in DOMAIN globals
    /\ ReadInFrame
    /\ last.s = "For"
    /\ environment["r"] = globals[ReadName]

----------------------------------------------------------------------------
(* SpecSignal: programs                                                    *)
(*     fn f(k) { .. }   fn g(k) { f(k) }   create n = ..                   *)
(*     <a for, while or loop statement that calls f(n) or g(n)>            *)
(*     create r = n                                                        *)
(* where the body of f is empty or raises Break or Continue outside any    *)
(* loop, at once or when k > 1.  The loop statements count in n:           *)
(*     for i in [1, ..] { n += 1  c(n)  n += 10 }                          *)
(*     while n < 3 { n += 1  c(n)  n += 10 }                               *)
(*     loop { n += 1  if n > 3 { break }  c(n)  n += 10 }                  *)

Bump(by) == StExpression(ExMathAssign(ExIdentifier("n"), "Add", ExNumber(by)))

CallWithN(c) ==
    StExpression(ExCall(ExIdentifier(c), <<Argument(NoName, ExIdentifier("n"))>>))

WhenOver(name, limit, then) ==
    StIf(ConditionBlock(ExInfix(ExIdentifier(name), "GreaterThan", ExNumber(limit)), then),
         <<>>, NoBlock)

SignalBodies ==
    {<<>>, <<StBreak>>, <<StContinue>>,
     <<WhenOver("k", 1, <<StBreak>>)>>, <<WhenOver("k", 1, <<StContinue>>)>>}

SignalLoops(c) ==
    {StFor(ExList(NumberItems(len)), "i", NoName, <<Bump(1), CallWithN(c), Bump(10)>>) :
         len \in 1..MaxLen}
        \cup {StWhile(ConditionBlock(ExInfix(ExIdentifier("n"), "LessThan", ExNumber(3)),
                                     <<Bump(1), CallWithN(c), Bump(10)>>)),
              StLoop(<<Bump(1), WhenOver("n", 3, <<StBreak>>), CallWithN(c), Bump(10)>>)}

SignalDeclare ==
    \E body \in SignalBodies :
        /\ program = <<>>
        /\ Run(StFunctionDeclaration("f", <<Parameter("k", NoExpr)>>, body))

SignalRelay ==
    /\ Len(program) = 1
    /\ Run(StFunctionDeclaration("g", <<Parameter("k", NoExpr)>>,
               <<StExpression(ExCall(ExIdentifier("f"),
                     <<Argument(NoName, ExIdentifier("k"))>>))>>))

SignalCreate ==
    \E v \in {0, 1} :
        /\ Len(program) = 2
        /\ Run(StCreateDeclaration("n", ExNumber(v)))

SignalLoop ==
    \E c \in {"f", "g"} : \E statement \in SignalLoops(c) :
        /\ Len(program) = 3
        /\ Run(statement)

SignalRead ==
    /\ Len(program) = 4
    /\ Run(StCreateDeclaration("r", ExIdentifier("n")))

InitSignal == InitWith(EnvNew)

NextSignal == SignalDeclare \/ SignalRelay \/ SignalCreate \/ SignalLoop \/ SignalRead

SpecSignal == InitSignal /\ [][NextSignal]_vars

(* The calls of the last statement that a Break or Continue left. *)
LeftBySignal == {j \in Left : log[j].how \in {"Break", "Continue"}}

(* C13: a Break or Continue raised in a function body outside any loop of  *)
(* that body is not consumed by a for, while or loop statement of the      *)
(* caller: the statement whose body made the call ends with that signal as *)
(* the program's error.                                                    *)
C13_SignalNotConsumed ==
    (last.s \in {"For", "While", "Loop"} /\ LeftBySignal # {}) =>
        \E j \in LeftBySignal : outcome.sig = log[j].how

----------------------------------------------------------------------------
(* SpecError: programs                                                     *)
(*     fn mark() {}                                                        *)
(*     fn h() { W1 { F  mark() }  mark() }                                 *)
(*     W2 { X  mark() }                                                    *)
(*     create after = 1                                                    *)
(* where W1 and W2 are one of `if true`, `if false {} elif true`,          *)
(* `if false {} else`, `while true { .. break }`, `loop { .. break }` and  *)
(* `for i in [1, 2]`, F is a statement that fails (a read of the unbound   *)
(* u as a statement, as the condition of a while, an if or an elif, or as  *)
(* the value of a return; a for over a number) or the harmless `1`, and X  *)
(* is the call h() or F itself.                                            *)

Kinds == {"If", "Elif", "Else", "While", "Loop", "For"}

Wrap(kind, block) ==
    CASE kind = "If" -> StIf(ConditionBlock(ExBool(TRUE), block), <<>>, NoBlock)
      [] kind = "Elif" ->
           StIf(ConditionBlock(ExBool(FALSE), <<>>),
                <<ConditionBlock(ExBool(TRUE), block)>>, NoBlock)
      [] kind = "Else" ->
           StIf(ConditionBlock(ExBool(FALSE), <<>>), <<>>, SomeBlock(block))
      [] kind = "While" -> StWhile(ConditionBlock(ExBool(TRUE), Append(block, StBreak)))
      [] kind = "Loop" -> StLoop(Append(block, StBreak))
      [] kind = "For" ->
           StFor(ExList(<<ExNumber(1), ExNumber(2)>>), "i", NoName, block)

Mark == StExpression(ExCall(ExIdentifier("mark"), <<>>))

CallH == StExpression(ExCall(ExIdentifier("h"), <<>>))

Unbound == ExIdentifier("u")

ErrorFails ==
    {StExpression(Unbound),
     StReturn(Unbound),
     StWhile(ConditionBlock(Unbound, <<Mark>>)),
     StIf(ConditionBlock(Unbound, <<Mark>>), <<>>, SomeBlock(<<Mark>>)),
     StIf(ConditionBlock(ExBool(FALSE), <<>>), <<ConditionBlock(Unbound, <<Mark>>)>>,
          SomeBlock(<<Mark>>)),
     StFor(ExNumber(1), "i", NoName, <<Mark>>)}

Harmless == StExpression(ExNumber(1))

(* The error the failing statement F yields. *)
ErrorOf(F) ==
    IF F.s = "For"
    THEN [sig |-> "InvalidIterable", err |-> <<"Number">>]
    ELSE [sig |-> "UndefinedVariable", err |-> <<"u">>]

DeclareH(w1, F) == StFunctionDeclaration("h", <<>>, <<Wrap(w1, <<F, Mark>>), Mark>>)

ErrorMark ==
    /\ program = <<>>
    /\ Run(StFunctionDeclaration("mark", <<>>, <<>>))

ErrorDeclare ==
    \E w1 \in Kinds, F \in ErrorFails \cup {Harmless} :
        /\ Len(program) = 1
        /\ Run(DeclareH(w1, F))

ErrorRun ==
    \E w2 \in Kinds, X \in ErrorFails \cup {Harmless, CallH} :
        /\ Len(program) = 2
        /\ Run(Wrap(w2, <<X, Mark>>))

ErrorAfter ==
    /\ Len(program) = 3
    /\ Run(StCreateDeclaration("after", ExNumber(1)))

InitError == InitWith(EnvNew)

NextError == ErrorMark \/ ErrorDeclare \/ ErrorRun \/ ErrorAfter

SpecError == InitError /\ [][NextError]_vars

(* The calls of mark() the last statement made. *)
Marks == {j \in Entered : log[j].name = "mark"}

(* The third statement reaches the failing statement F, inside h or not. *)
Reaches(F) ==
    /\ Len(program) >= 3
    /\ \E w1 \in Kinds, w2 \in Kinds :
           \/ program[3] = Wrap(w2, <<F, Mark>>)
           \/ program[2] = DeclareH(w1, F) /\ program[3] = Wrap(w2, <<CallH, Mark>>)

(* C14: once a statement or expression has yielded an error, no if, while, *)
(* loop, for or call recovers it: no statement after it is executed, in    *)
(* the construct, in the function or in the program, and the run ends with *)
(* that same error.                                                        *)
C14_ErrorsNotRecovered ==
    \A F \in ErrorFails :
        Reaches(F) =>
            /\ outcome = [sig |-> ErrorOf(F).sig, val |-> VNull, err |-> ErrorOf(F).err]
            /\ Marks = {}
            /\ Len(program) = 3
            /\ "after" \notin DOMAIN environment

C14_Witness ==
    /\ Reaches(StWhile(ConditionBlock(Unbound, <<Mark>>)))
    /\ program[2] = DeclareH("Loop", StWhile(ConditionBlock(Unbound, <<Mark>>)))
    /\ program[3] = Wrap("For", <<CallH, Mark>>)
    /\ outcome.sig = "UndefinedVariable"

----------------------------------------------------------------------------
(* The parser of src/src/parser.rs.  A token is a record [t |-> kind, ..]. *)
(* The parser state is the token sequence and the position of `current`    *)
(* (`peek` is the token after it); past the last token both are Eof.       *)
(* Results are the records Ok / Err of the evaluator, with the parser      *)
(* state in place of the interpreter state; unreachable!() is Panic.  The  *)
(* state also keeps the errors a sub-parser raised and its caller dropped. *)

Token(t) == [t |-> t]
TNumber(n) == [t |-> "Number", n |-> n]
TIdentifier(s) == [t |-> "Identifier", s |-> s]
TString(s) == [t |-> "String", s |-> s]
Eof == Token("Eof")

(* enum Precedence, lowest first (#[derive(PartialOrd)]) *)
Ladder ==
    <<"Lowest", "Statement", "Assign", "PlusAssign", "MinusAssign", "MultiplyAssign",
      "DivideAssign", "Increment", "Decrement", "AndOr", "LessThanGreaterThan",
      "Equals", "Sum", "Product", "Pow", "Modulo", "Prefix", "Call">>

Rung(precedence) == CHOOSE i \in DOMAIN Ladder : Ladder[i] = precedence

(* Precedence::token *)
precedence_token(t) ==
    CASE t \in {"Asterisk", "Slash"} -> "Product"
      [] t \in {"Plus", "Minus"} -> "Sum"
      [] t = "Percent" -> "Modulo"
      [] t = "Pow" -> "Pow"
      [] t \in {"Equals", "NotEquals"} -> "Equals"
      [] t \in {"And", "Or", "In", "NotIn"} -> "AndOr"
      [] t \in {"Assign", "PlusAssign", "MinusAssign", "MultiplyAssign", "DivideAssign",
                "Increment", "Decrement"} -> t
      [] t \in {"LessThan", "GreaterThan", "LessThanOrEquals", "GreaterThanOrEquals"} ->
           "LessThanGreaterThan"
      [] t \in {"LeftParen", "Dot", "LeftBracket"} -> "Call"
      [] t = "LeftBrace" -> "Statement"
      [] OTHER -> "Lowest"

(* The tokens of the Infix arm of parse_infix_expression. *)
InfixTokens ==
    {"Plus", "Minus", "Asterisk", "Slash", "Equals", "NotEquals", "LessThanOrEquals",
     "LessThan", "GreaterThan", "GreaterThanOrEquals", "And", "Or", "Pow", "In", "NotIn",
     "Percent"}

(* Op::token: the operator a token stands for. *)
op_token(t) ==
    CASE t = "Plus" -> "Add"
      [] t = "Minus" -> "Subtract"
      [] t = "Asterisk" -> "Multiply"
      [] t = "Slash" -> "Divide"
      [] t = "Percent" -> "Modulo"
      [] OTHER -> t

Parser(toks) == [tokens |-> toks, pos |-> 1, dropped |-> <<>>]

current(ps) == IF ps.pos <= Len(ps.tokens) THEN ps.tokens[ps.pos] ELSE Eof

current_is(ps, t) == current(ps).t = t

read(ps) == IF ps.pos <= Len(ps.tokens) THEN [ps EXCEPT !.pos = @ + 1] ELSE ps

expect_token(ps, t) ==
    IF current_is(ps, t)
    THEN Ok(ps, current(ps))
    ELSE Err(ps, "UnexpectedTokenExpected", <<current(ps), t>>)

expect_token_and_read(ps, t) ==
    Then(expect_token(ps, t), LAMBDA r : Ok(read(r.st), r.val))

expect_identifier_and_read(ps) == expect_token_and_read(ps, "Identifier")

(* `if self.current_is(Token::Comma) { self.read() }` *)
skip_comma(ps) == IF current_is(ps, "Comma") THEN read(ps) ELSE ps

RECURSIVE parse_statement(_)
RECURSIVE parse_expression(_, _)
RECURSIVE parse_block(_)
RECURSIVE parse_fn(_, _)
RECURSIVE parse_arguments(_)
RECURSIVE parse_postfix_expression(_, _)
RECURSIVE parse_infix_expression(_, _)

(* parse_for *)
for_variables(ps) ==
    IF current_is(ps, "LeftParen")
    THEN Then(expect_identifier_and_read(read(ps)), LAMBDA ri :
             Then(expect_token_and_read(ri.st, "Comma"), LAMBDA rc :
                 Then(expect_identifier_and_read(rc.st), LAMBDA rv :
                     Then(expect_token_and_read(rv.st, "RightParen"), LAMBDA rp :
                         Ok(rp.st, [index |-> ri.val.s, value |-> rv.val.s])))))
    ELSE Then(expect_identifier_and_read(ps), LAMBDA rv :
             Ok(rv.st, [index |-> NoName, value |-> rv.val.s]))

parse_for(ps) ==
    Then(expect_token_and_read(ps, "For"), LAMBDA r0 :
        Then(for_variables(r0.st), LAMBDA rv :
            Then(expect_token_and_read(rv.st, "In"), LAMBDA rn :
                Then(parse_expression(rn.st, "Statement"), LAMBDA ri :
                    Then(parse_block(ri.st), LAMBDA rb :
                        Ok(rb.st, StFor(ri.val, rv.val.value, rv.val.index, rb.val)))))))

(* parse_expression: the prefix table, then postfix and infix operators    *)
(* while the current token binds tighter than `precedence`.                *)
RECURSIVE list_items(_, _)
list_items(ps, items) ==
    IF current_is(ps, "RightBracket")
    THEN Ok(ps, items)
    ELSE Then(parse_expression(ps, "Lowest"), LAMBDA r :
             list_items(skip_comma(r.st), Append(items, r.val)))

prefix(ps) ==
    CASE current_is(ps, "String") -> Ok(read(ps), ExString(current(ps).s))
      [] current_is(ps, "Null") -> Ok(read(ps), ExNull)
      [] current_is(ps, "Number") -> Ok(read(ps), ExNumber(current(ps).n))
      [] current_is(ps, "True") -> Ok(read(ps), ExBool(TRUE))
      [] current_is(ps, "False") -> Ok(read(ps), ExBool(FALSE))
      [] current_is(ps, "Identifier") -> Ok(read(ps), ExIdentifier(current(ps).s))
      [] current_is(ps, "Fn") ->
           Then(parse_fn(ps, FALSE), LAMBDA rf :
               Ok(rf.st, ExClosure(rf.val.params, rf.val.body)))
      [] current(ps).t \in {"Minus", "Bang"} ->
           Then(parse_expression(read(ps), "Prefix"), LAMBDA rr :
               Ok(rr.st, ExPrefix(op_token(current(ps).t), rr.val)))
      [] current_is(ps, "LeftBracket") ->
           Then(list_items(read(ps), <<>>), LAMBDA ri :
               Then(expect_token_and_read(ri.st, "RightBracket"), LAMBDA rb :
                   Ok(rb.st, ExList(ri.val))))
      [] OTHER -> Err(ps, "UnexpectedToken", <<current(ps)>>)

binds_as_tight(ps, precedence) ==
    /\ ~current_is(ps, "Eof")
    /\ Rung(precedence) <= Rung(precedence_token(current(ps).t))

binds_tighter(ps, precedence) ==
    /\ ~current_is(ps, "Eof")
    /\ Rung(precedence) < Rung(precedence_token(current(ps).t))

RECURSIVE operators(_, _, _)
operators(ps, precedence, left) ==
    IF ~binds_tighter(ps, precedence)
    THEN Ok(ps, left)
    ELSE Then(parse_postfix_expression(ps, left), LAMBDA rp :
             IF rp.val # NoExpr
             THEN operators(rp.st, precedence, rp.val)
             ELSE Then(parse_infix_expression(ps, left), LAMBDA ri :
                      IF ri.val # NoExpr
                      THEN operators(ri.st, precedence, ri.val)
                      ELSE Ok(ps, left)))

parse_expression(ps, precedence) ==
    Then(prefix(ps), LAMBDA rl : operators(rl.st, precedence, rl.val))

(* parse_arguments: `name = value` is a named argument. *)
RECURSIVE call_args(_, _)
call_args(ps, args) ==
    IF current_is(ps, "RightParen")
    THEN Ok(ps, args)
    ELSE Then(parse_expression(ps, "Lowest"), LAMBDA r :
             IF r.val.e # "Assign"
             THEN call_args(skip_comma(r.st), Append(args, Argument(NoName, r.val)))
             ELSE IF r.val.target.e = "Identifier"
             THEN call_args(skip_comma(r.st),
                            Append(args, Argument(r.val.target.name, r.val.value)))
             ELSE Err(r.st, "UnexpectedToken", <<current(r.st)>>))

parse_arguments(ps) ==
    Then(expect_token_and_read(ps, "LeftParen"), LAMBDA r0 :
        Then(call_args(r0.st, <<>>), LAMBDA ra :
            Then(expect_token_and_read(ra.st, "RightParen"), LAMBDA rr :
                Ok(rr.st, ra.val))))

(* HashMap::insert on the fields of a struct literal. *)
RECURSIVE replace(_, _, _)
replace(fields, name, value) ==
    IF fields = <<>>
    THEN <<>>
    ELSE <<IF Head(fields).name = name THEN Field(name, value) ELSE Head(fields)>>
             \o replace(Tail(fields), name, value)

insert(fields, name, value) ==
    IF \E j \in DOMAIN fields : fields[j].name = name
    THEN replace(fields, name, value)
    ELSE Append(fields, Field(name, value))

RECURSIVE literal_fields(_, _)
literal_fields(ps, fields) ==
    IF current_is(ps, "RightBrace")
    THEN Ok(ps, fields)
    ELSE Then(expect_identifier_and_read(ps), LAMBDA rn :
             IF current_is(rn.st, "Colon")
             THEN Then(parse_expression(read(rn.st), "Lowest"), LAMBDA rv :
                      literal_fields(skip_comma(rv.st),
                                     insert(fields, rn.val.s, rv.val)))
             ELSE literal_fields(skip_comma(rn.st),
                                 insert(fields, rn.val.s, ExIdentifier(rn.val.s))))

after_dot(ps, left, field) ==
    IF current_is(ps, "LeftParen")
    THEN Then(parse_arguments(ps), LAMBDA ra : Ok(ra.st, ExMethodCall(left, field, ra.val)))
    ELSE IF current_is(ps, "Assign")
    THEN Then(parse_expression(read(ps), "Lowest"), LAMBDA rr :
             Ok(rr.st, ExSetProperty(left, field, rr.val)))
    ELSE Ok(ps, ExGetProperty(left, field))

parse_postfix_expression(ps, left) ==
    CASE current_is(ps, "Dot") ->
           Then(expect_identifier_and_read(read(ps)), LAMBDA rf :
               after_dot(rf.st, left, rf.val.s))
      [] current_is(ps, "LeftBracket") ->
           IF current_is(read(ps), "RightBracket")
           THEN Ok(read(read(ps)), ExIndex(left, NoExpr))
           ELSE Then(parse_expression(read(ps), "Lowest"), LAMBDA ri :
                    Then(expect_token_and_read(ri.st, "RightBracket"), LAMBDA rb :
                        Ok(rb.st, ExIndex(left, ri.val))))
      [] current_is(ps, "LeftBrace") ->
           Then(literal_fields(read(ps), <<>>), LAMBDA rf :
               Then(expect_token_and_read(rf.st, "RightBrace"), LAMBDA rb :
                   Ok(rb.st, ExStruct(left, rf.val))))
      [] current_is(ps, "LeftParen") ->
           Then(parse_arguments(ps), LAMBDA ra : Ok(ra.st, ExCall(left, ra.val)))
      [] OTHER -> Ok(ps, NoExpr)

(* The operator of `+=`, `-=`, `*=`, `/=`, `++` and `--`. *)
math_assign_op(t) ==
    CASE t \in {"PlusAssign", "Increment"} -> "Add"
      [] t \in {"MinusAssign", "Decrement"} -> "Subtract"
      [] t = "MultiplyAssign" -> "Multiply"
      [] t = "DivideAssign" -> "Divide"

parse_infix_expression(ps, left) ==
    CASE current(ps).t \in InfixTokens ->
           Then(parse_expression(read(ps), precedence_token(current(ps).t)), LAMBDA rr :
               Ok(rr.st, ExInfix(left, op_token(current(ps).t), rr.val)))
      [] current_is(ps, "Assign") ->
           Then(parse_expression(read(ps), "Lowest"), LAMBDA rr :
               Ok(rr.st, ExAssign(left, rr.val)))
      [] current(ps).t \in {"PlusAssign", "MinusAssign", "MultiplyAssign", "DivideAssign"} ->
           Then(parse_expression(read(ps), "Lowest"), LAMBDA rr :
               Ok(rr.st, ExMathAssign(left, math_assign_op(current(ps).t), rr.val)))
      [] current(ps).t \in {"Increment", "Decrement"} ->
           Ok(read(ps), ExMathAssign(left, math_assign_op(current(ps).t), ExNumber(1)))
      [] OTHER -> Ok(ps, NoExpr)

(* parse_if and parse_while: the condition, in parentheses or not. *)
parse_condition(ps, in_parens) ==
    IF current_is(ps, "LeftParen")
    THEN Then(parse_expression(read(ps), in_parens), LAMBDA rc :
             Then(expect_token_and_read(rc.st, "RightParen"), LAMBDA rr :
                 Ok(rr.st, rc.val)))
    ELSE parse_expression(ps, "Statement")

RECURSIVE else_ifs(_, _)
else_ifs(ps, blocks) ==
    IF ~current_is(ps, "ElseIf")
    THEN Ok(ps, blocks)
    ELSE Then(parse_condition(read(ps), "Lowest"), LAMBDA rc :
             Then(parse_block(rc.st), LAMBDA rb :
                 else_ifs(rb.st, Append(blocks, ConditionBlock(rc.val, rb.val)))))

else_block(ps) ==
    IF current_is(ps, "Else")
    THEN Then(parse_block(read(ps)), LAMBDA rb : Ok(rb.st, SomeBlock(rb.val)))
    ELSE Ok(ps, NoBlock)

parse_if(ps) ==
    Then(expect_token_and_read(ps, "If"), LAMBDA r0 :
        Then(parse_condition(r0.st, "Lowest"), LAMBDA rc :
            Then(parse_block(rc.st), LAMBDA rb :
                Then(else_ifs(rb.st, <<>>), LAMBDA re :
                    Then(else_block(re.st), LAMBDA ro :
                        Ok(ro.st, StIf(ConditionBlock(rc.val, rb.val),
                                       re.val, ro.val)))))))

parse_while(ps) ==
    Then(expect_token_and_read(ps, "While"), LAMBDA r0 :
        Then(parse_condition(r0.st, "Statement"), LAMBDA rc :
            Then(parse_block(rc.st), LAMBDA rb :
                Ok(rb.st, StWhile(ConditionBlock(rc.val, rb.val))))))

parse_loop(ps) ==
    Then(expect_token_and_read(ps, "Loop"), LAMBDA r0 :
        Then(parse_block(r0.st), LAMBDA rb : Ok(rb.st, StLoop(rb.val))))

(* parse_return: `if let Ok(expression) = .. else Return { Null }` drops   *)
(* the error of parse_expression and keeps the tokens it had consumed.     *)
return_value(re) ==
    CASE re.sig = "Ok" -> Ok(re.st, StReturn(re.val))
      [] re.sig = "Panic" -> re
      [] OTHER ->
           Ok([re.st EXCEPT !.dropped =
                   Append(@, [kind |-> re.sig, err |-> re.err, pos |-> re.st.pos])],
              StReturn(ExNull))

parse_return(ps) ==
    Then(expect_token_and_read(ps, "Return"), LAMBDA r0 :
        return_value(parse_expression(r0.st, "Lowest")))

parse_break(ps) ==
    Then(expect_token_and_read(ps, "Break"), LAMBDA r0 : Ok(r0.st, StBreak))

parse_continue(ps) ==
    Then(expect_token_and_read(ps, "Continue"), LAMBDA r0 : Ok(r0.st, StContinue))

parse_initial(ps) ==
    IF current_is(ps, "Assign") THEN parse_expression(read(ps), "Lowest") ELSE Ok(ps, NoExpr)

parse_create(ps) ==
    Then(expect_token_and_read(ps, "Create"), LAMBDA r0 :
        Then(expect_identifier_and_read(r0.st), LAMBDA rn :
            Then(parse_initial(rn.st), LAMBDA ri :
                Ok(ri.st, StCreateDeclaration(rn.val.s, ri.val)))))

parse_const(ps) ==
    Then(expect_token_and_read(ps, "Const"), LAMBDA r0 :
        Then(expect_identifier_and_read(r0.st), LAMBDA rn :
            Then(expect_token_and_read(rn.st, "Assign"), LAMBDA ra :
                Then(parse_expression(ra.st, "Lowest"), LAMBDA ri :
                    Ok(ri.st, StConstDeclaration(rn.val.s, ri.val))))))

(* parse_struct: a field name followed by anything but `,`, `}`, `fn`, an  *)
(* identifier or `=` reaches unreachable!().                               *)
RECURSIVE struct_fields(_, _)
struct_field(ps, fields, field) ==
    CASE current(ps).t \in {"Comma", "RightBrace", "Fn", "Identifier"} ->
           struct_fields(ps, Append(fields, Parameter(field, NoExpr)))
      [] current_is(ps, "Assign") ->
           Then(parse_expression(read(ps), "Lowest"), LAMBDA ri :
               struct_fields(ri.st, Append(fields, Parameter(field, ri.val))))
      [] OTHER -> Panic(ps)

struct_fields(ps, fields) ==
    IF current_is(ps, "RightBrace")
    THEN Ok(ps, fields)
    ELSE IF current_is(ps, "Fn")
    THEN Then(parse_fn(ps, TRUE), LAMBDA rf :
             struct_fields(rf.st,
                 Append(fields, Parameter(rf.val.name,
                                          ExClosure(rf.val.params, rf.val.body)))))
    ELSE Then(expect_identifier_and_read(ps), LAMBDA rn :
             struct_field(rn.st, fields, rn.val.s))

parse_struct(ps) ==
    Then(expect_token_and_read(ps, "Struct"), LAMBDA r0 :
        Then(expect_identifier_and_read(r0.st), LAMBDA rn :
            Then(expect_token_and_read(rn.st, "LeftBrace"), LAMBDA rl :
                Then(struct_fields(rl.st, <<>>), LAMBDA rf :
                    Then(expect_token_and_read(rf.st, "RightBrace"), LAMBDA rr :
                        Ok(rr.st, StStructDeclaration(rn.val.s, rf.val)))))))

(* parse_fn *)
fn_name(ps, with_identifier) ==
    IF with_identifier
    THEN Then(expect_identifier_and_read(ps), LAMBDA rn : Ok(rn.st, rn.val.s))
    ELSE Ok(ps, "<Closure>")

RECURSIVE fn_params(_, _)
fn_param(ps, params, param) ==
    IF current_is(ps, "Assign")
    THEN Then(parse_expression(read(ps), "Lowest"), LAMBDA ri :
             fn_params(ri.st, Append(params, Parameter(param, ri.val))))
    ELSE fn_params(ps, Append(params, Parameter(param, NoExpr)))

fn_params(ps, params) ==
    IF current_is(ps, "RightParen")
    THEN Ok(ps, params)
    ELSE Then(expect_identifier_and_read(skip_comma(ps)), LAMBDA rp :
             fn_param(rp.st, params, rp.val.s))

parse_fn(ps, with_identifier) ==
    Then(expect_token_and_read(ps, "Fn"), LAMBDA r0 :
        Then(fn_name(r0.st, with_identifier), LAMBDA rn :
            Then(expect_token_and_read(rn.st, "LeftParen"), LAMBDA rl :
                Then(fn_params(rl.st, <<>>), LAMBDA rp :
                    Then(expect_token_and_read(rp.st, "RightParen"), LAMBDA rr :
                        Then(parse_block(rr.st), LAMBDA rb :
                            Ok(rb.st, StFunctionDeclaration(rn.val, rp.val,
                                                            rb.val))))))))

(* parse_block *)
RECURSIVE block_statements(_, _)
block_statements(ps, block) ==
    IF current_is(ps, "RightBrace")
    THEN Ok(ps, block)
    ELSE Then(parse_statement(ps), LAMBDA r :
             block_statements(r.st, Append(block, r.val)))

parse_block(ps) ==
    Then(expect_token_and_read(ps, "LeftBrace"), LAMBDA r0 :
        Then(block_statements(r0.st, <<>>), LAMBDA rb :
            Then(expect_token_and_read(rb.st, "RightBrace"), LAMBDA rr :
                Ok(rr.st, rb.val))))

parse_statement(ps) ==
    CASE current_is(ps, "Fn") -> parse_fn(ps, TRUE)
      [] current_is(ps, "Struct") -> parse_struct(ps)
      [] current_is(ps, "Create") -> parse_create(ps)
      [] current_is(ps, "Const") -> parse_const(ps)
      [] current_is(ps, "If") -> parse_if(ps)
      [] current_is(ps, "For") -> parse_for(ps)
      [] current_is(ps, "While") -> parse_while(ps)
      [] current_is(ps, "Loop") -> parse_loop(ps)
      [] current_is(ps, "Return") -> parse_return(ps)
      [] current_is(ps, "Break") -> parse_break(ps)
      [] current_is(ps, "Continue") -> parse_continue(ps)
      [] OTHER -> Then(parse_expression(ps, "Lowest"), LAMBDA r :
                      Ok(r.st, StExpression(r.val)))

(* Parser::next and parse: statements until Eof, or the first error. *)
next(ps) ==
    IF current(ps) = Eof THEN Ok(ps, NoStatement) ELSE parse_statement(ps)

RECURSIVE statements(_, _)
statements(ps, ast) ==
    Then(next(ps), LAMBDA r :
        IF r.val = NoStatement
        THEN Ok(r.st, ast)
        ELSE statements(r.st, Append(ast, r.val)))

parse(toks) == statements(Parser(toks), <<>>)

(* What parse returned: the program or the error, the position it stopped  *)
(* at and the errors dropped on the way.                                   *)
Returned(r) ==
    [sig |-> r.sig, program |-> IF r.sig = "Ok" THEN r.val ELSE <<>>, err |-> r.err,
     pos |-> r.st.pos, dropped |-> r.st.dropped]

Parse ==
    /\ parsed = NoParse
    /\ parsed' = Returned(parse(tokens))
    /\ UNCHANGED <<environment, globals, lists, senvs, mtabs, log, program, outcome, tokens>>

InitParse(inputs) ==
    /\ tokens \in inputs
    /\ parsed = NoParse
    /\ environment = EnvNew
    /\ globals = EnvNew
    /\ lists = <<>>
    /\ senvs = <<>>
    /\ mtabs = <<>>
    /\ log = <<>>
    /\ program = <<>>
    /\ outcome = [sig |-> "Ok", val |-> VNull, err |-> <<>>]

----------------------------------------------------------------------------
(* SpecParse: parse applied to every sequence of up to MaxTokens tokens    *)
(* out of `return`, `struct`, `fn`, an identifier, a number, `.`, `+`,     *)
(* `(`, `)`, `{` and `}`.                                                  *)

MaxTokens == 4      \* longest token sequence handed to parse

ParseAlphabet ==
    {Token("Return"), Token("Struct"), Token("Fn"), TIdentifier("a"), TNumber(5),
     Token("Dot"), Token("Plus"), Token("LeftParen"), Token("RightParen"),
     Token("LeftBrace"), Token("RightBrace")}

RECURSIVE TokenSeqs(_)
TokenSeqs(n) ==
    IF n = 0 THEN {<<>>}
    ELSE TokenSeqs(n - 1)
             \cup {Append(ts, t) : ts \in {q \in TokenSeqs(n - 1) : Len(q) = n - 1},
                                   t \in ParseAlphabet}

InitTokens == InitParse(TokenSeqs(MaxTokens))

NextParse == Parse

SpecParse == InitTokens /\ [][NextParse]_vars

ParseErrors == {"UnexpectedToken", "UnexpectedTokenExpected", "Unreachable"}

(* C15: for every token sequence parse returns a complete program or the   *)
(* ParseError of the first unexpected token a sub-parser met: it does not  *)
(* abort, and no error is raised and then dropped, with more tokens read   *)
(* and statements added after it.                                          *)
C15_HaltsAtFirstError ==
    parsed # NoParse =>
        /\ parsed.sig \in {"Ok"} \cup ParseErrors
        /\ parsed.dropped = <<>>
        /\ parsed.sig = "Ok" => parsed.pos = Len(tokens) + 1

----------------------------------------------------------------------------
(* SpecInfix: parse applied to `a op1 b op2 c` for every pair of infix     *)
(* operator tokens and operands that are numbers or identifiers, and to    *)
(* `1 + 2 * 3 / 3`.                                                        *)

Operands == {TNumber(1), TIdentifier("x")}

TheExample ==
    <<TNumber(1), Token("Plus"), TNumber(2), Token("Asterisk"), TNumber(3),
      Token("Slash"), TNumber(3)>>

InfixInputs ==
    {<<a, Token(op1), b, Token(op2), c>> :
         a \in Operands, b \in Operands, c \in Operands,
         op1 \in InfixTokens, op2 \in InfixTokens}
        \cup {TheExample}

InitInfix == InitParse(InfixInputs)

NextInfix == Parse

SpecInfix == InitInfix /\ [][NextInfix]_vars

(* The expression an operand token stands for. *)
Operand(tok) == IF tok.t = "Number" THEN ExNumber(tok.n) ELSE ExIdentifier(tok.s)

Higher(op2, op1) == Rung(precedence_token(op2)) > Rung(precedence_token(op1))

Nested(toks) ==
    IF Higher(toks[4].t, toks[2].t)
    THEN ExInfix(Operand(toks[1]), op_token(toks[2].t),
                 ExInfix(Operand(toks[3]), op_token(toks[4].t), Operand(toks[5])))
    ELSE ExInfix(ExInfix(Operand(toks[1]), op_token(toks[2].t), Operand(toks[3])),
                 op_token(toks[4].t), Operand(toks[5]))

(* C16: `a op1 b op2 c` parses to Infix(a, op1, Infix(b, op2, c)) when the *)
(* rung of op2 in the precedence ladder is strictly higher than that of    *)
(* op1, and to Infix(Infix(a, op1, b), op2, c) otherwise; `1 + 2 * 3 / 3`  *)
(* parses to 1 + ((2 * 3) / 3).                                            *)
C16_PrecedenceClimbing ==
    parsed # NoParse =>
        /\ parsed.sig = "Ok"
        /\ Len(tokens) = 5 => parsed.program = <<StExpression(Nested(tokens))>>
        /\ tokens = TheExample =>
               parsed.program =
                   <<StExpression(
                       ExInfix(ExNumber(1), "Add",
                               ExInfix(ExInfix(ExNumber(2), "Multiply", ExNumber(3)),
                                       "Divide", ExNumber(3))))>>

C16_Witness ==
    /\ tokens = <<TNumber(1), Token("Minus"), TIdentifier("x"), Token("Plus"), TNumber(1)>>
    /\ parsed # NoParse
    /\ parsed.program =
           <<StExpression(ExInfix(ExInfix(ExNumber(1), "Subtract", ExIdentifier("x")),
                                  "Add", ExNumber(1)))>>

----------------------------------------------------------------------------
(* SpecNest: programs that create the counters a, b, c, o and j and run    *)
(* one loop nested in another,                                             *)
(*     OUTER { j = 0  INNER { a += 1  S  b += 1 }  c += 1 }                *)
(* where each loop is a for over 1 or 2 elements, a `while v < n` or a     *)
(* `loop { if v > n - 1 { break } .. }` counting in v (o outside, j        *)
(* inside), and S is nothing, a break or a continue: bare, in an if that   *)
(* is taken once a > 1, or in the else of an if.                           *)

Inc(v) == StExpression(ExMathAssign(ExIdentifier(v), "Add", ExNumber(1)))

Reset(v) == StExpression(ExAssign(ExIdentifier(v), ExNumber(0)))

LoopKinds == {"For", "While", "Loop"}

(* A loop of kind `kind` that runs `body` n times, counting in v. *)
Counted(kind, v, item, n, body) ==
    CASE kind = "For" -> StFor(ExList(NumberItems(n)), item, NoName, body)
      [] kind = "While" ->
           StWhile(ConditionBlock(ExInfix(ExIdentifier(v), "LessThan", ExNumber(n)),
                                  <<Inc(v)>> \o body))
      [] kind = "Loop" ->
           StLoop(<<WhenOver(v, n - 1, <<StBreak>>), Inc(v)>> \o body)

NestSignals ==
    [when : {"Always", "Over", "Else"}, signal : {"Break", "Continue"}]
        \cup {[when |-> "Never", signal |-> "None"]}

SignalOf(S) == IF S.signal = "Break" THEN StBreak ELSE StContinue

SignalStatement(S) ==
    CASE S.when = "Never" -> <<>>
      [] S.when = "Always" -> <<SignalOf(S)>>
      [] S.when = "Over" -> <<WhenOver("a", 1, <<SignalOf(S)>>)>>
      [] S.when = "Else" ->
           <<StIf(ConditionBlock(ExBool(FALSE), <<>>), <<>>, SomeBlock(<<SignalOf(S)>>))>>

Nest(outer, inner, no, ni, S) ==
    Counted(outer, "o", "x", no,
        <<Reset("j"),
          Counted(inner, "j", "y", ni, <<Inc("a")>> \o SignalStatement(S) \o <<Inc("b")>>),
          Inc("c")>>)

Counters == <<"a", "b", "c", "o", "j">>

NestCreate ==
    /\ Len(program) < Len(Counters)
    /\ Run(StCreateDeclaration(Counters[Len(program) + 1], ExNumber(0)))

NestRun ==
    \E outer \in LoopKinds, inner \in LoopKinds, no \in {1, 2}, ni \in {1, 2},
       S \in NestSignals :
        /\ Len(program) = Len(Counters)
        /\ Run(Nest(outer, inner, no, ni, S))

InitNest == InitWith(EnvNew)

NextNest == NestCreate \/ NestRun

SpecNest == InitNest /\ [][NextNest]_vars

(* What the counters must be if a signal of the inner body acts on the     *)
(* inner loop only: one pass of the inner loop from the counts ab, and the *)
(* passes of all outer iterations.                                         *)
Fires(S, a) ==
    CASE S.when = "Never" -> FALSE
      [] S.when = "Over" -> a > 1
      [] OTHER -> TRUE

RECURSIVE InnerCount(_, _, _, _)
InnerCount(i, ni, S, ab) ==
    IF i > ni THEN ab
    ELSE IF ~Fires(S, ab.a + 1)
    THEN InnerCount(i + 1, ni, S, [a |-> ab.a + 1, b |-> ab.b + 1])
    ELSE IF S.signal = "Break"
    THEN [a |-> ab.a + 1, b |-> ab.b]
    ELSE InnerCount(i + 1, ni, S, [a |-> ab.a + 1, b |-> ab.b])

RECURSIVE OuterCount(_, _, _, _, _)
OuterCount(k, no, ni, S, ab) ==
    IF k > no THEN ab ELSE OuterCount(k + 1, no, ni, S, InnerCount(1, ni, S, ab))

Counted_a(no, ni, S) == OuterCount(1, no, ni, S, [a |-> 0, b |-> 0]).a

Counted_b(no, ni, S) == OuterCount(1, no, ni, S, [a |-> 0, b |-> 0]).b

(* C17: in nested loops of any kinds a Break in the inner body, bare or    *)
(* inside an if, ends the inner loop only, and a Continue skips the rest   *)
(* of the current inner iteration only; the outer iteration goes on with   *)
(* the statement after the inner loop, and the outer loop runs all its     *)
(* iterations.                                                             *)
C17_InnermostLoopOnly ==
    \A outer \in LoopKinds, inner \in LoopKinds, no \in {1, 2}, ni \in {1, 2},
       S \in NestSignals :
        last = Nest(outer, inner, no, ni, S) =>
            /\ outcome.sig = "Ok"
            /\ environment["a"] = VNumber(Counted_a(no, ni, S))
            /\ environment["b"] = VNumber(Counted_b(no, ni, S))
            /\ environment["c"] = VNumber(no)

C17_Witness ==
    /\ last = Nest("For", "While", 2, 2, [when |-> "Over", signal |-> "Break"])
    /\ environment["a"] = VNumber(3)
    /\ environment["b"] = VNumber(1)
    /\ environment["c"] = VNumber(2)

----------------------------------------------------------------------------
(* SpecReturn: programs                                                    *)
(*     fn mark() {}                                                        *)
(*     fn f(k) { W1 { W2 { R  mark() }  mark() }  mark()  [return 9] }     *)
(*     create r = f(1) or f(2)                                             *)
(* where W1 and W2 are the constructs of SpecError and R is `return 1`,    *)
(* `return k`, `if k > 1 { return 2 }` or nothing.                         *)

Returns ==
    {<<StReturn(ExNumber(1))>>,
     <<StReturn(ExIdentifier("k"))>>,
     <<WhenOver("k", 1, <<StReturn(ExNumber(2))>>)>>,
     <<>>}

FinalReturn == {<<StReturn(ExNumber(9))>>, <<>>}

DeclareF(w1, w2, R, final) ==
    StFunctionDeclaration("f", <<Parameter("k", NoExpr)>>,
        <<Wrap(w1, <<Wrap(w2, Append(R, Mark)), Mark>>), Mark>> \o final)

CallF(v) ==
    StCreateDeclaration("r", ExCall(ExIdentifier("f"), <<Argument(NoName, ExNumber(v))>>))

ReturnMark ==
    /\ program = <<>>
    /\ Run(StFunctionDeclaration("mark", <<>>, <<>>))

ReturnDeclare ==
    \E w1 \in Kinds, w2 \in Kinds, R \in Returns, final \in FinalReturn :
        /\ Len(program) = 1
        /\ Run(DeclareF(w1, w2, R, final))

ReturnCall ==
    \E v \in {1, 2} :
        /\ Len(program) = 2
        /\ Run(CallF(v))

InitReturn == InitWith(EnvNew)

NextReturn == ReturnMark \/ ReturnDeclare \/ ReturnCall

SpecReturn == InitReturn /\ [][NextReturn]_vars

(* The value the nested statement R returns when f is called with v, if it *)
(* returns.                                                                *)
ReturnedBy(R, v) ==
    CASE R = <<>> -> NoVal
      [] R[1].s = "If" -> IF v > 1 THEN VNumber(2) ELSE NoVal
      [] R[1].value.e = "Number" -> VNumber(1)
      [] OTHER -> VNumber(v)

ValueOfCall(R, final, v) ==
    IF ReturnedBy(R, v) # NoVal THEN ReturnedBy(R, v)
    ELSE IF final # <<>> THEN VNumber(9)
    ELSE VNull

(* C18: a call of a function returns the value of the first Return its     *)
(* body executes, at any depth inside if, while, loop and for statements,  *)
(* and no statement of the body runs after that Return; a body that ends   *)
(* without a Return makes the call return Null.                            *)
C18_FirstReturnWins ==
    \A w1 \in Kinds, w2 \in Kinds, R \in Returns, final \in FinalReturn, v \in {1, 2} :
        (Len(program) = 3 /\ program[2] = DeclareF(w1, w2, R, final) /\ last = CallF(v)) =>
            /\ outcome.sig = "Ok"
            /\ environment["r"] = ValueOfCall(R, final, v)
            /\ ReturnedBy(R, v) # NoVal => Marks = {}

C18_Witness ==
    /\ Len(program) = 3
    /\ program[2] = DeclareF("For", "Loop", <<WhenOver("k", 1, <<StReturn(ExNumber(2))>>)>>,
                             <<StReturn(ExNumber(9))>>)
    /\ last = CallF(2)
    /\ environment["r"] = VNumber(2)
    /\ Marks = {}

----------------------------------------------------------------------------
(* SpecIf: programs that create p, t, w and q1 .. (all 9 but t = 0) and    *)
(* run one if statement                                                    *)
(*     if p = v0 { t++  w = 1 } elif q1 = v1 { t++  w = 2 } .. else { t++  w = 0 } *)
(* with up to MaxElifs elifs, with or without the else, each v being 0, 1, *)
(* true or false.  A condition that is evaluated assigns its variable; a   *)
(* body that runs counts in t and leaves its number in w.                  *)

MaxElifs == 2       \* most elif blocks of an if statement

ElifNames == <<"q1", "q2", "q3", "q4">>

CondValues == {ExNumber(0), ExNumber(1), ExBool(TRUE), ExBool(FALSE)}

RECURSIVE CondSeqs(_)
CondSeqs(n) ==
    IF n = 0 THEN {<<>>}
    ELSE {Append(vs, v) : vs \in CondSeqs(n - 1), v \in CondValues}

Taken(id) == <<Inc("t"), StExpression(ExAssign(ExIdentifier("w"), ExNumber(id)))>>

Condition(name, v, id) == ConditionBlock(ExAssign(ExIdentifier(name), v), Taken(id))

RECURSIVE Elifs(_)
Elifs(vs) ==
    IF vs = <<>> THEN <<>>
    ELSE Append(Elifs(SubSeq(vs, 1, Len(vs) - 1)),
                Condition(ElifNames[Len(vs)], vs[Len(vs)], 1 + Len(vs)))

TheIf(v0, vs, els) ==
    StIf(Condition("p", v0, 1), Elifs(vs), IF els THEN SomeBlock(Taken(0)) ELSE NoBlock)

IfVariables == <<"p", "w">> \o SubSeq(ElifNames, 1, MaxElifs)

IfCount ==
    /\ program = <<>>
    /\ Run(StCreateDeclaration("t", ExNumber(0)))

IfCreate ==
    /\ Len(program) \in 1..Len(IfVariables)
    /\ Run(StCreateDeclaration(IfVariables[Len(program)], ExNumber(9)))

IfRun ==
    \E v0 \in CondValues, n \in 0..MaxElifs, els \in BOOLEAN : \E vs \in CondSeqs(n) :
        /\ Len(program) = 1 + Len(IfVariables)
        /\ Run(TheIf(v0, vs, els))

InitIf == InitWith(EnvNew)

NextIf == IfCount \/ IfCreate \/ IfRun

SpecIf == InitIf /\ [][NextIf]_vars

Truthy(v) == v \in {ExNumber(1), ExBool(TRUE)}

LiteralValue(v) == IF v.e = "Number" THEN VNumber(v.n) ELSE VBool(v.b)

(* The first truthy elif, or 0. *)
FirstTruthy(vs) ==
    IF \E j \in DOMAIN vs : Truthy(vs[j])
    THEN CHOOSE j \in DOMAIN vs : Truthy(vs[j]) /\ \A h \in 1..(j - 1) : ~Truthy(vs[h])
    ELSE 0

(* The elif conditions that must have been evaluated. *)
Evaluated(v0, vs) ==
    IF Truthy(v0) THEN {}
    ELSE IF FirstTruthy(vs) = 0 THEN DOMAIN vs
    ELSE 1..FirstTruthy(vs)

(* The number of the one body that must have run, 9 if none. *)
BranchTaken(v0, vs, els) ==
    IF Truthy(v0) THEN 1
    ELSE IF FirstTruthy(vs) # 0 THEN 1 + FirstTruthy(vs)
    ELSE IF els THEN 0
    ELSE 9

(* C19: an If statement runs the body of at most one branch: the primary   *)
(* body if its condition is truthy, else the body of the first elif whose  *)
(* condition is truthy, else the else body if there is one; the conditions *)
(* of the elifs after the first truthy one are not evaluated.              *)
C19_OneBranch ==
    \A v0 \in CondValues, n \in 0..MaxElifs, els \in BOOLEAN : \A vs \in CondSeqs(n) :
        last = TheIf(v0, vs, els) =>
            /\ outcome.sig = "Ok"
            /\ environment["p"] = LiteralValue(v0)
            /\ environment["w"] = VNumber(BranchTaken(v0, vs, els))
            /\ environment["t"] = VNumber(IF BranchTaken(v0, vs, els) = 9 THEN 0 ELSE 1)
            /\ \A j \in 1..MaxElifs :
                   environment[ElifNames[j]] =
                       IF j \in Evaluated(v0, vs) THEN LiteralValue(vs[j]) ELSE VNumber(9)

C19_Witness ==
    /\ last = TheIf(ExNumber(0), <<ExBool(TRUE), ExNumber(1)>>, TRUE)
    /\ environment["w"] = VNumber(2)
    /\ environment["t"] = VNumber(1)
    /\ environment["q2"] = VNumber(9)

----------------------------------------------------------------------------
(* SpecScope: programs that bind x at top level (create or const), create  *)
(* the closure h, declare                                                  *)
(*     fn f(c, k) { create l = 3  PRE  return NAME }                       *)
(* and  fn g(c) { create y = 5  create d = fn() { .. }  return f(.., 4) }  *)
(* and call f, directly from top level or through g.  PRE is nothing, a    *)
(* call of c or a for loop calling c; NAME is x (top level), y (a local of *)
(* the caller g), k, l or f.                                               *)

ScopeNames == {"x", "y", "k", "l", "f"}

ClosureBodies == {<<>>, <<StBreak>>, <<StContinue>>, <<StReturn(ExNumber(0))>>}

CallC == StExpression(ExCall(ExIdentifier("c"), <<>>))

ScopePres == {<<>>, <<CallC>>, <<StFor(ExList(<<ExNumber(1)>>), "i", NoName, <<CallC>>)>>}

DeclareScoped(pre, name) ==
    StFunctionDeclaration("f", <<Parameter("c", NoExpr), Parameter("k", NoExpr)>>,
        <<StCreateDeclaration("l", ExNumber(3))>> \o pre \o <<StReturn(ExIdentifier(name))>>)

CallScoped(c) ==
    ExCall(ExIdentifier("f"), <<Argument(NoName, ExIdentifier(c)), Argument(NoName, ExNumber(4))>>)

DeclareCaller(B, c) ==
    StFunctionDeclaration("g", <<Parameter("c", NoExpr)>>,
        <<StCreateDeclaration("y", ExNumber(5)),
          StCreateDeclaration("d", ExClosure(<<>>, B)),
          StReturn(CallScoped(c))>>)

ScopeCalls ==
    {StCreateDeclaration("r", CallScoped("h")),
     StCreateDeclaration("r", ExCall(ExIdentifier("g"), <<Argument(NoName, ExIdentifier("h"))>>))}

ScopeTop ==
    \E constant \in BOOLEAN :
        /\ program = <<>>
        /\ Run(IF constant THEN StConstDeclaration("x", ExNumber(7))
                           ELSE StCreateDeclaration("x", ExNumber(7)))

ScopeClosure ==
    \E B \in ClosureBodies :
        /\ Len(program) = 1
        /\ Run(StCreateDeclaration("h", ExClosure(<<>>, B)))

ScopeDeclare ==
    \E pre \in ScopePres, name \in ScopeNames :
        /\ Len(program) = 2
        /\ Run(DeclareScoped(pre, name))

ScopeCaller ==
    \E c \in {"c", "d"} :
        /\ Len(program) = 3
        /\ Run(DeclareCaller(program[2].initial.body, c))

ScopeCall ==
    \E statement \in ScopeCalls :
        /\ Len(program) = 4
        /\ Run(statement)

InitScope == InitWith(EnvNew)

NextScope == ScopeTop \/ ScopeClosure \/ ScopeDeclare \/ ScopeCaller \/ ScopeCall

SpecScope == InitScope /\ [][NextScope]_vars

(* The closure's body lets the statement after PRE run. *)
ReachesReturn(pre, B) ==
    \/ pre = <<>>
    \/ pre[1].s = "For"
    \/ B \in {<<>>, <<StReturn(ExNumber(0))>>}

(* C20: in the body of a function declared with `fn f(..) {..}` the        *)
(* identifier of a top-level create or const variable (x) or of a variable *)
(* of the calling frame (y) never resolves: the `return x` or `return y`   *)
(* that the body reaches ends the program with UndefinedVariable.          *)
C20_NoOuterVariables ==
    \A pre \in ScopePres, name \in {"x", "y"}, B \in ClosureBodies :
        (/\ Len(program) = 5
         /\ program[2] = StCreateDeclaration("h", ExClosure(<<>>, B))
         /\ program[3] = DeclareScoped(pre, name)
         /\ ReachesReturn(pre, B))
        => /\ outcome.sig = "UndefinedVariable"
           /\ outcome.err = <<name>>

----------------------------------------------------------------------------
(* SpecOrder: programs that declare                                        *)
(*     struct P { n = 0  fn m(this, u = 0, v = 0) { return this.n } }      *)
(* (or m without `this`), the functions t(q) { return q }, g (above),      *)
(* a() { return 1 }, b() { return 2 } and mk() { return [1] }, create the  *)
(* instance p and then run method calls `T.f(args)` whose target T is      *)
(* t(p), g(p) or mk() and whose arguments are calls of a and b.            *)

OrderMethod(bound) ==
    ExClosure((IF bound THEN <<Parameter("this", NoExpr)>> ELSE <<>>)
                  \o <<Parameter("u", ExNumber(0)), Parameter("v", ExNumber(0))>>,
              <<StReturn(IF bound THEN ExGetProperty(This, "n") ELSE ExIdentifier("u"))>>)

Returning(name, params, value) ==
    StFunctionDeclaration(name, params, <<StReturn(value)>>)

OrderDeclarations ==
    <<Returning("t", <<Parameter("q", NoExpr)>>, ExIdentifier("q")),
      TheMaker,
      Returning("a", <<>>, ExNumber(1)),
      Returning("b", <<>>, ExNumber(2)),
      Returning("mk", <<>>, ExList(<<ExNumber(1)>>))>>

CallOf(name, arguments) == ExCall(ExIdentifier(name), arguments)

OrderTargets == {"t", "g", "mk"}

TargetOf(name) ==
    CallOf(name, IF name = "mk" THEN <<>> ELSE <<Argument(NoName, ExIdentifier("p"))>>)

FieldOf(name) == IF name = "mk" THEN "len" ELSE "m"

OrderArguments == {<<>>, <<"a">>, <<"a", "b">>, <<"b", "a">>}

RECURSIVE ArgumentCalls(_)
ArgumentCalls(names) ==
    IF names = <<>> THEN <<>>
    ELSE <<Argument(NoName, CallOf(Head(names), <<>>))>> \o ArgumentCalls(Tail(names))

TheMethodCall(target, names) ==
    StCreateDeclaration("r",
        ExMethodCall(TargetOf(target), FieldOf(target), ArgumentCalls(names)))

OrderStruct ==
    \E bound \in BOOLEAN :
        /\ program = <<>>
        /\ Run(StStructDeclaration("P",
                <<Parameter("n", ExNumber(0)), Parameter("m", OrderMethod(bound))>>))

OrderDeclare ==
    /\ Len(program) \in 1..Len(OrderDeclarations)
    /\ Run(OrderDeclarations[Len(program)])

OrderInstance ==
    \E n \in {1, 2} :
        /\ Len(program) = 1 + Len(OrderDeclarations)
        /\ Run(StCreateDeclaration("p",
                ExStruct(ExIdentifier("P"), <<Field("n", ExNumber(n))>>)))

OrderCall ==
    \E target \in OrderTargets, names \in OrderArguments :
        /\ "p" \in DOMAIN environment
        /\ Len(program) < 4 + Len(OrderDeclarations)
        /\ Run(TheMethodCall(target, names))

InitOrder == InitWith(EnvNew)

NextOrder == OrderStruct \/ OrderDeclare \/ OrderInstance \/ OrderCall

SpecOrder == InitOrder /\ [][NextOrder]_vars

(* The functions and native callbacks entered, in order. *)
RECURSIVE EnteredNames(_)
EnteredNames(lg) ==
    IF lg = <<>> THEN <<>>
    ELSE (IF Head(lg).ev \in {"Enter", "Native"} THEN <<Head(lg).name>> ELSE <<>>)
             \o EnteredNames(Tail(lg))

EnterEvents == SelectSeq(log, LAMBDA e : e.ev \in {"Enter", "Native"})

MethodIsBound ==
    /\ Len(program) >= 1
    /\ program[1].fields[2].initial.params[1].name = "this"

(* C21: in a method call T.f(args) that resolves to a bound method (a      *)
(* struct method whose first parameter is `this`, or a native method) T is *)
(* evaluated once to resolve f, then the arguments left to right, then T   *)
(* again in the caller's frame for the receiver, and then the body or the  *)
(* callback runs with that receiver: T's effects occur twice per call.     *)
C21_ReceiverEvaluatedAgain ==
    \A target \in OrderTargets, names \in OrderArguments :
        (/\ last = TheMethodCall(target, names)
         /\ (target = "mk" \/ MethodIsBound))
        => /\ outcome.sig = "Ok"
           /\ EnteredNames(log) = <<target>> \o names \o <<target, FieldOf(target)>>
           /\ EnterEvents[Len(names) + 2].caller = EnterEvents[1].caller
           /\ EnterEvents[Len(names) + 3].caller = EnterEvents[1].caller
           /\ EnterEvents[Len(names) + 3].this # NoVal

C21_Witness ==
    /\ last = TheMethodCall("g", <<"a", "b">>)
    /\ MethodIsBound
    /\ outcome.sig = "Ok"
    /\ EnteredNames(log) = <<"g", "a", "b", "g", "m">>

C21_WitnessNative ==
    /\ last = TheMethodCall("mk", <<"b", "a">>)
    /\ EnteredNames(log) = <<"mk", "b", "a", "mk", "len">>

----------------------------------------------------------------------------
(* SpecLogic: programs that declare the functions yes() { return 1 },      *)
(* two() { return 2 }, no() { return 0 }, tt() { return true },            *)
(* ff() { return false } and nil() { }, and then run                       *)
(*     create r = L and R      or      create r = L or R                   *)
(* where L and R are calls of these functions or the literals 0 and true.  *)

LogicDeclarations ==
    <<Returning("yes", <<>>, ExNumber(1)),
      Returning("two", <<>>, ExNumber(2)),
      Returning("no", <<>>, ExNumber(0)),
      Returning("tt", <<>>, ExBool(TRUE)),
      Returning("ff", <<>>, ExBool(FALSE)),
      StFunctionDeclaration("nil", <<>>, <<>>)>>

LogicCalls == {"yes", "two", "no", "tt", "ff", "nil"}

LogicOperands == {CallOf(name, <<>>) : name \in LogicCalls} \cup {ExNumber(0), ExBool(TRUE)}

LogicOps == {"And", "Or"}

TheLogic(l, op, r) == StCreateDeclaration("r", ExInfix(l, op, r))

LogicDeclare ==
    /\ Len(program) \in 0..(Len(LogicDeclarations) - 1)
    /\ Run(LogicDeclarations[Len(program) + 1])

LogicRun ==
    \E l \in LogicOperands, r \in LogicOperands, op \in LogicOps :
        /\ Len(program) = Len(LogicDeclarations)
        /\ Run(TheLogic(l, op, r))

InitLogic == InitWith(EnvNew)

NextLogic == LogicDeclare \/ LogicRun

SpecLogic == InitLogic /\ [][NextLogic]_vars

(* The boolean coercion of what an operand evaluates to. *)
Coerced(operand) ==
    operand \in {CallOf("yes", <<>>), CallOf("two", <<>>), CallOf("tt", <<>>), ExBool(TRUE)}

(* The function an operand calls, if any. *)
CalledBy(operand) == IF operand.e = "Call" THEN <<operand.callable.name>> ELSE <<>>

(* C22: for `l and r` and `l or r` both operands are always evaluated,     *)
(* left then right, also when l alone decides the result, and the result   *)
(* is the Bool of the boolean coercions of the two values.                 *)
C22_BothOperandsEvaluated ==
    \A l \in LogicOperands, r \in LogicOperands, op \in LogicOps :
        last = TheLogic(l, op, r) =>
            /\ outcome.sig = "Ok"
            /\ EnteredNames(log) = CalledBy(l) \o CalledBy(r)
            /\ environment["r"] = VBool(IF op = "And" THEN Coerced(l) /\ Coerced(r)
                                                      ELSE Coerced(l) \/ Coerced(r))

(* `no() and yes()`: the left operand decides, the right one still runs. *)
C22_Witness ==
    /\ last = TheLogic(CallOf("no", <<>>), "And", CallOf("yes", <<>>))
    /\ EnteredNames(log) = <<"no", "yes">>
    /\ environment["r"] = VBool(FALSE)

----------------------------------------------------------------------------
(* SpecReentrant: programs that create a list xs of up to MaxLen numbers,  *)
(* bind ys to the same list (`create ys = xs`) or to a list of its own,    *)
(* and run `for x in xs { .. }` or `for (i, x) in xs { .. }` whose body    *)
(* appends to xs or ys, overwrites their first element, or does nothing.   *)

ReentrantWrites ==
    {<<>>} \cup
    {<<StExpression(ExAssign(ExIndex(ExIdentifier(nm), at), ExNumber(9)))>> :
        nm \in {"xs", "ys"}, at \in {NoExpr, ExNumber(0)}}

ReentrantList ==
    \E n \in 0..MaxLen :
        /\ program = <<>>
        /\ Run(StCreateDeclaration("xs", ExList(NumberItems(n))))

ReentrantAlias ==
    \E initial \in {ExIdentifier("xs"), ExList(<<ExNumber(7)>>)} :
        /\ Len(program) = 1
        /\ Run(StCreateDeclaration("ys", initial))

ReentrantFor ==
    \E index \in {NoName, "i"}, body \in ReentrantWrites :
        /\ Len(program) = 2
        /\ Run(StFor(ExIdentifier("xs"), "x", index, body))

InitReentrant == InitWith(EnvNew)

NextReentrant == ReentrantList \/ ReentrantAlias \/ ReentrantFor

SpecReentrant == InitReentrant /\ [][NextReentrant]_vars

(* C23: an append `xs[] = v` or an overwrite `xs[i] = v` of the list being *)
(* iterated, executed in the body of the for statement, does not abort the *)
(* interpreter: the for statement ends normally or with an                 *)
(* InterpreterResult error.                                                *)
C23_ReentrantTolerated ==
    last.s = "For" => outcome.sig # "Panic"

----------------------------------------------------------------------------
(* SpecNested: programs that declare `struct A { n = 0 }` and              *)
(* `struct T { f }`, bind a to `A { n: v }` (with create or const) and b   *)
(* to a, and then set n through a, b or t.f a few times, creating at some  *)
(* point t as `T { f: a }` or `T { f: b }`.  The statement at position k   *)
(* of the program writes the value 10 + k.                                 *)

NestedDeclarations ==
    <<StStructDeclaration("A", <<Parameter("n", ExNumber(0))>>),
      StStructDeclaration("T", <<Parameter("f", NoExpr)>>)>>

InstanceOfA(v) == ExStruct(ExIdentifier("A"), <<Field("n", ExNumber(v))>>)

Holder(name) == StCreateDeclaration("t", ExStruct(ExIdentifier("T"), <<Field("f", ExIdentifier(name))>>))

TheF == ExGetProperty(ExIdentifier("t"), "f")

SetN(target, w) == StExpression(ExSetProperty(target, "n", ExNumber(w)))

NestedDeclare ==
    /\ Len(program) < 2
    /\ Run(NestedDeclarations[Len(program) + 1])

NestedInstance ==
    \E v \in {1, 2}, constant \in BOOLEAN :
        /\ Len(program) = 2
        /\ Run(IF constant THEN StConstDeclaration("a", InstanceOfA(v))
                           ELSE StCreateDeclaration("a", InstanceOfA(v)))

NestedAlias ==
    /\ Len(program) = 3
    /\ Run(StCreateDeclaration("b", ExIdentifier("a")))

NestedHolder ==
    \E name \in {"a", "b"} :
        /\ Len(program) >= 4
        /\ "t" \notin DOMAIN environment
        /\ Run(Holder(name))

NestedSet ==
    \E target \in {ExIdentifier("a"), ExIdentifier("b"), TheF} :
        /\ Len(program) >= 4
        /\ Len(program) < 5 + MaxSteps
        /\ target = TheF => "t" \in DOMAIN environment
        /\ Run(SetN(target, 10 + Len(program)))

InitNested == InitWith(EnvNew)

NextNested == NestedDeclare \/ NestedInstance \/ NestedAlias \/ NestedHolder \/ NestedSet

SpecNested == InitNested /\ [][NextNested]_vars

Unwrapped(value) == IF value.k = "Constant" THEN value.inner ELSE value

(* n as bound in the cell of a, and in the cell of the instance in t's f. *)
NOfA == senvs[Unwrapped(environment["a"]).environment]["n"]

NOfF == senvs[Unwrapped(senvs[environment["t"].environment]["f"]).environment]["n"]

(* What the program has written: to a's n through a or b, and to the n of  *)
(* t's f through t.f, which starts as a's n was when t was created.        *)
RECURSIVE WrittenToA(_)
WrittenToA(i) ==
    IF i = 3 THEN program[3].initial.fields[1].value.n
    ELSE IF program[i].s = "Expression" /\ program[i].expression.target # TheF
    THEN program[i].expression.value.n
    ELSE WrittenToA(i - 1)

RECURSIVE WrittenToF(_)
WrittenToF(i) ==
    IF program[i].s = "CreateDeclaration" /\ program[i].name = "t"
    THEN WrittenToA(i - 1)
    ELSE IF program[i].s = "Expression" /\ program[i].expression.target = TheF
    THEN program[i].expression.value.n
    ELSE WrittenToF(i - 1)

(* C24: a struct instance a given as the value of field f of a struct      *)
(* literal is stored with an environment of its own, copied from a's: a    *)
(* SetProperty on a's field through a or another binding of a does not     *)
(* show through f, and a SetProperty through f does not show through a.    *)
C24_FieldInstanceCopied ==
    (/\ Len(program) >= 4
     /\ program[3].s = "CreateDeclaration")
    => /\ outcome.sig = "Ok"
       /\ NOfA = VNumber(WrittenToA(Len(program)))
       /\ "t" \in DOMAIN environment =>
              /\ NOfF = VNumber(WrittenToF(Len(program)))
              /\ senvs[environment["t"].environment]["f"].environment
                     # environment["a"].environment

(* t was created, then n was set through b and through t.f: a and t.f      *)
(* differ.                                                                 *)
C24_Witness ==
    /\ Len(program) = 7
    /\ program[3].s = "CreateDeclaration"
    /\ program[5] = Holder("a")
    /\ program[6] = SetN(ExIdentifier("b"), 15)
    /\ program[7] = SetN(TheF, 16)
    /\ NOfA = VNumber(15)
    /\ NOfF = VNumber(16)

----------------------------------------------------------------------------
(* SpecKeep: programs that start with `const k = 1` and go on, in the same *)
(* frame, with statements that name k: `k = 2`, `k += 1`, `create k = 2`,  *)
(* `const k = 2`, `for k in [5] { }`, `for (k, x) in [5] { }`, and the     *)
(* harmless `create y = k` and `for x in [5] { }`.                         *)

TheConstant == StConstDeclaration("k", ExNumber(1))

KeepFor(value, index) == StFor(ExList(<<ExNumber(5)>>), value, index, <<>>)

KeepStatements ==
    {StExpression(ExAssign(ExIdentifier("k"), ExNumber(2))),
     StExpression(ExMathAssign(ExIdentifier("k"), "Add", ExNumber(1))),
     StCreateDeclaration("k", ExNumber(2)),
     StConstDeclaration("k", ExNumber(2)),
     KeepFor("k", NoName),
     KeepFor("x", "k"),
     KeepFor("x", NoName),
     StCreateDeclaration("y", ExIdentifier("k"))}

KeepConst ==
    /\ program = <<>>
    /\ Run(TheConstant)

KeepStep ==
    \E statement \in KeepStatements :
        /\ Len(program) \in 1..MaxSteps
        /\ Run(statement)

InitKeep == InitWith(EnvNew)

NextKeep == KeepConst \/ KeepStep

SpecKeep == InitKeep /\ [][NextKeep]_vars

(* C25: after `const k = 1` has run in a frame, no later statement that    *)
(* runs successfully in that frame (Assign, MathAssign, create k, another  *)
(* const k, a for loop whose variable or index is k) changes the value     *)
(* bound to k or removes the binding.                                      *)
C25_ConstantKept ==
    (Len(program) >= 1 /\ outcome.sig = "Ok") =>
        EnvGet(environment, "k") = VConstant(VNumber(1))

----------------------------------------------------------------------------
(* SpecMath: the source `create x = n  create r = x op= e` (op one of +,   *)
(* -, *, /) or `create x = n  create r = x++` / `x--` is parsed and the    *)
(* two statements are run.  n is 2, 4 or 6 and e is 1 or 2, so that every  *)
(* division is exact.                                                      *)

MathTokens == {"PlusAssign", "MinusAssign", "MultiplyAssign", "DivideAssign"}

StepTokens == {"Increment", "Decrement"}

CreateTokens(name) == <<Token("Create"), TIdentifier(name), Token("Assign")>>

MathSource(n, t, e) ==
    CreateTokens("x") \o <<TNumber(n)>> \o CreateTokens("r") \o <<TIdentifier("x"), Token(t)>>
        \o (IF t \in StepTokens THEN <<>> ELSE <<TNumber(e)>>)

MathInputs ==
    {MathSource(n, t, e) : n \in {2, 4, 6}, t \in MathTokens \cup StepTokens, e \in {1, 2}}

MathRun ==
    /\ parsed # NoParse
    /\ parsed.sig = "Ok"
    /\ Len(program) < Len(parsed.program)
    /\ Run(parsed.program[Len(program) + 1])

InitMath == InitParse(MathInputs)

NextMath == Parse \/ MathRun

SpecMath == InitMath /\ [][NextMath]_vars

(* C26: for `x op= e` with op one of +, -, *, / and for `x++`, `x--`, on   *)
(* an identifier x bound to a Number, the value the MathAssign expression  *)
(* produces (bound to r here) is the value newly bound to x.               *)
C26_ValueIsNewBinding ==
    Len(program) = 2 =>
        /\ outcome.sig = "Ok"
        /\ environment["r"] = environment["x"]

----------------------------------------------------------------------------
(* SpecWrite: programs that set up the names f and u in two statements     *)
(* (`fn n() {}`, `struct n {}` or `create n = ..`) and then write and read *)
(* one of them: at top level (`n = v` and then `create r = n`) or as the   *)
(* parameter of a function (`fn g(n) { n = v  return n }` and then         *)
(* `create r = g(0)`).                                                     *)

WriteTo(n, v) == StExpression(ExAssign(ExIdentifier(n), ExNumber(v)))

WriteInside(n, v) ==
    StFunctionDeclaration("g", <<Parameter(n, NoExpr)>>,
                          <<WriteTo(n, v), StReturn(ExIdentifier(n))>>)

WriteValues == {5, 6}

WriteSetup ==
    \E statement \in LookupSetups :
        /\ Len(program) < 2
        /\ Run(statement)

WriteAssign ==
    \E n \in LookupNames, v \in WriteValues, inside \in BOOLEAN :
        /\ Len(program) = 2
        /\ Run(IF inside THEN WriteInside(n, v) ELSE WriteTo(n, v))

WriteRead ==
    /\ Len(program) = 3
    /\ Run(StCreateDeclaration("r",
              IF last.s = "Expression"
              THEN last.expression.target
              ELSE ExCall(ExIdentifier("g"), <<Argument(NoName, ExNumber(0))>>)))

InitWrite == InitWith(EnvNew)

NextWrite == WriteSetup \/ WriteAssign \/ WriteRead

SpecWrite == InitWrite /\ [][NextWrite]_vars

(* The name and the value of the assignment the program made. *)
TheWrite ==
    IF program[3].s = "Expression" THEN program[3] ELSE program[3].body[1]

WrittenName == TheWrite.expression.target.name

WrittenValue == VNumber(TheWrite.expression.value.n)

(* C27 as stated: after an Assign to the identifier x has completed, the   *)
(* next evaluation of x in the same frame yields the assigned value, also  *)
(* when the global table holds a function or struct named x.               *)
C27_WriteThenRead ==
    Len(program) = 4 =>
        /\ outcome.sig = "Ok"
        /\ environment["r"] = WrittenValue

(* C27, amended: after an Assign to the identifier x has completed, the    *)
(* next evaluation of x in the same frame yields the assigned value,       *)
(* provided the global table holds no entry named x.                       *)
C27_WriteThenReadUnshadowed ==
    (Len(program) = 4 /\ WrittenName \notin DOMAIN globals) =>
        /\ outcome.sig = "Ok"
        /\ environment["r"] = WrittenValue

(* u is a variable and f a global function: `u = 5` and then u reads 5. *)
C27_Witness ==
    /\ Len(program) = 4
    /\ program[3] = WriteTo("u", 5)
    /\ "f" \in DOMAIN globals
    /\ "u" \notin DOMAIN globals
    /\ environment["r"] = VNumber(5)

----------------------------------------------------------------------------
(* SpecFresh: programs that create x, build the closure                    *)
(*     create c = fn(a) { REBIND  END }                                    *)
(* where REBIND is `x = x + a`, `x += a` or `create x = x + a` and END is  *)
(* `return x`, `break`, `continue` or nothing, and then call it a few      *)
(* times: `create r = c(v)` or, inside a loop, `for i in [1] { c(v) }`.    *)

XPlusA == ExInfix(ExIdentifier("x"), "Add", ExIdentifier("a"))

FreshRebinds ==
    {StExpression(ExAssign(ExIdentifier("x"), XPlusA)),
     StExpression(ExMathAssign(ExIdentifier("x"), "Add", ExIdentifier("a"))),
     StCreateDeclaration("x", XPlusA)}

FreshEndings == {<<StReturn(ExIdentifier("x"))>>, <<StBreak>>, <<StContinue>>, <<>>}

FreshClosure(rebind, ending) ==
    StCreateDeclaration("c", ExClosure(<<Parameter("a", NoExpr)>>, <<rebind>> \o ending))

CallC1(v) == ExCall(ExIdentifier("c"), <<Argument(NoName, ExNumber(v))>>)

FreshCalls ==
    {StCreateDeclaration("r", CallC1(v)) : v \in {1, 2}}
        \cup {StFor(ExList(<<ExNumber(1)>>), "i", NoName, <<StExpression(CallC1(v))>>) :
                  v \in {1, 2}}

FreshCreate ==
    \E n \in {1, 2} :
        /\ program = <<>>
        /\ Run(StCreateDeclaration("x", ExNumber(n)))

FreshBuild ==
    \E rebind \in FreshRebinds, ending \in FreshEndings :
        /\ Len(program) = 1
        /\ Run(FreshClosure(rebind, ending))

FreshCall ==
    \E statement \in FreshCalls :
        /\ Len(program) >= 2
        /\ Len(program) < 2 + MaxSteps
        /\ Run(statement)

InitFresh == InitWith(EnvNew)

NextFresh == FreshCreate \/ FreshBuild \/ FreshCall

SpecFresh == InitFresh /\ [][NextFresh]_vars

(* What a call c(v) returns when it starts from the captured bindings. *)
FreshResult(v) ==
    IF program[2].initial.body[Len(program[2].initial.body)].s = "Return"
    THEN VNumber(program[1].initial.n + v)
    ELSE VNull

(* C28: every call of a closure starts from a fresh copy of the bindings   *)
(* captured when it was built: a rebinding of the captured x made in the   *)
(* body (Assign, MathAssign or create) shows neither in the enclosing      *)
(* scope after the call nor in a later call, so every call c(v) yields     *)
(* what the first one did.                                                 *)
C28_FreshCopyPerCall ==
    (Len(program) >= 3 /\ outcome.sig = "Ok") =>
        /\ EnvGet(environment, "x") = VNumber(program[1].initial.n)
        /\ last.s = "CreateDeclaration" =>
               environment["r"] = FreshResult(last.initial.arguments[1].expression.n)

====
